---- MODULE Spec2Model ----
(***************************************************************************)
(* A model of the request-orchestration engine of pmp-gateway-api:         *)
(*   - routes/handler.rs: handle_route, execute_sequential,                *)
(*     execute_parallel, build_execution_order, execute_http_subrequest,   *)
(*     AppError::into_response;                                            *)
(*   - interpolation.rs: InterpolationContext (interpolate,                *)
(*     evaluate_expression, extract_subrequest_value);                     *)
(*   - conditions.rs: evaluate_condition;                                  *)
(*   - clients/http.rs + middleware/circuit_breaker.rs: execute_request    *)
(*     with its retry loop and the failsafe circuit breaker;               *)
(*   - clients/load_balancer.rs: LoadBalancer (select_backend and the      *)
(*     connection counters);                                               *)
(*   - routes/mod.rs: build_router;                                        *)
(*   - transform.rs: apply_transformation and its steps;                   *)
(*   - health_aggregation.rs: HealthAggregator;                            *)
(*   - routing/selector.rs + config/traffic_split.rs: select_variant;      *)
(*   - middleware/deduplication.rs: deduplication_middleware;              *)
(*   - config/hot_reload.rs: ConfigHotReload::start_watching.              *)
(*                                                                         *)
(* Indices are 1-based here (Rust's idx 0 is index 1).  Option<T> is a     *)
(* sequence of length 0 (None) or 1 (Some(x)).  Result<T,E> is a record    *)
(* [ok |-> TRUE, v |-> x] or [ok |-> FALSE, err |-> e].                    *)
(***************************************************************************)
EXTENDS Integers, Sequences, FiniteSets, TLC

VARIABLES
    \* ---- one inbound request through handle_route ----
    subrequests,      \* route_config.subrequests
    execution_mode,   \* route_config.execution_mode
    http_clients,     \* ids held by ClientManager.http_clients
    request,          \* the inbound request (headers, path, query, body, method)
    pc,               \* position of handle_route
    execution_order,  \* the waves returned by build_execution_order
    wave_no,          \* index of the wave being joined (parallel mode)
    seq_idx,          \* index of the subrequest being awaited (sequential mode)
    context_results,  \* subrequest_results of context / context_clone
    task,             \* per subrequest: state, context snapshot, sent uri, result
    all_results,      \* execute_parallel's Vec<(usize, Value)>
    results,          \* execute_sequential's Vec<Value>
    response,         \* the response of handle_route, None until it returns
    \* ---- one HttpClient shared by concurrent execute_request calls ----
    cfg,              \* HttpClientConfig: base_url, backends, load_balance,
                      \* retry and circuit_breaker
    cb,               \* the failsafe state machine behind CircuitBreakerWrapper
    now,              \* the monotonic clock, in seconds
    call,             \* per caller: position and locals of execute_request
    hist,             \* history of the calls' outcomes (for the properties)
    url,              \* per caller: the url of the request being sent
    backoff,          \* per caller: the last backoff slept, in milliseconds
    ret,              \* per caller: what execute_request returned, None before
    overflow_checks,  \* whether the build checks integer overflow (debug)
    \* ---- one LoadBalancer shared by concurrent select_backend calls ----
    lb,               \* backends, strategy, round_robin_counter, connection_counts
    scan,             \* per picker: position and locals of select_backend
    picks,            \* the round-robin tickets handed out, in order
    \* ---- the router built by build_router ----
    routes,           \* config.routes: the declared (method, path) pairs
    served,           \* index of the route whose config served the request
    \* ---- the configuration that passed Config::validate ----
    clients,          \* config.clients: client id -> kind of client
    response_transform, \* route_config.response_transform
    \* ---- one call of a pure function: its arguments and its result ----
    expansion,        \* InterpolationContext::interpolate
    evaluation,       \* evaluate_condition
    shaping,          \* apply_transformation, step by step
    \* ---- the services beside the request path ----
    health,           \* HealthCheckManager: backends and the checks in flight
    traffic,          \* one TrafficSelector::select_variant call
    dedup,            \* RequestDeduplicator: cache and the requests in flight
    reload            \* ConfigHotReload: the watch channel and the file events

orchVars == <<subrequests, execution_mode, http_clients, request, pc,
              execution_order, wave_no, seq_idx, context_results, task,
              all_results, results, response>>
httpVars == <<cfg, cb, now, call, hist, url, backoff, ret, overflow_checks>>
lbVars == <<lb, scan, picks>>
routerVars == <<routes, served>>
configVars == <<clients, response_transform>>
pureVars == <<expansion, evaluation, shaping>>
sideVars == <<health, traffic, dedup, reload>>
vars == <<subrequests, execution_mode, http_clients, request, pc,
          execution_order, wave_no, seq_idx, context_results, task,
          all_results, results, response, cfg, cb, now, call, hist, url,
          backoff, ret, overflow_checks, lb, scan, picks, routes, served,
          clients, response_transform, expansion, evaluation, shaping,
          health, traffic, dedup, reload>>

----------------------------------------------------------------------------
(* Option and Result *)

None == <<>>
Some(x) == <<x>>
Ok(x) == [ok |-> TRUE, v |-> x]
Err(e) == [ok |-> FALSE, err |-> e]

EmptyMap == <<>>
MapInsert(m, k, v) == (k :> v) @@ m
MapHas(m, k) == k \in DOMAIN m

----------------------------------------------------------------------------
(* serde_json::Value *)

JNull == [t |-> "null"]
JStr(s) == [t |-> "string", s |-> s]
JNum(n) == [t |-> "number", n |-> n]
JBool(b) == [t |-> "bool", b |-> b]
JObj(m) == [t |-> "object", m |-> m]
JArr(a) == [t |-> "array", a |-> a]

----------------------------------------------------------------------------
(* interpolation.rs *)

\* The keys of the JSON objects of this model, in serde_json's map order
\* (a BTreeMap: ascending by key).
KeyOrder ==
    <<"body", "client_id", "count", "error", "headers", "id", "status",
      "subrequests", "type">>

Digits == <<"0", "1", "2", "3", "4", "5", "6", "7", "8", "9">>
IsDigit(c) == \E d \in 1..10 : Digits[d] = c
DigitValue(c) == (CHOOSE d \in 1..10 : Digits[d] = c) - 1

RECURSIVE ParseDigits(_, _)
ParseDigits(s, acc) ==
    IF Len(s) = 0 THEN acc
    ELSE ParseDigits(SubSeq(s, 2, Len(s)), acc * 10 + DigitValue(SubSeq(s, 1, 1)))

\* part.parse::<usize>(): Some(n) for a non-empty string of decimal digits.
ParseUsize(s) ==
    IF Len(s) > 0 /\ \A i \in 1..Len(s) : IsDigit(SubSeq(s, i, i))
    THEN Some(ParseDigits(s, 0))
    ELSE None

RECURSIVE EscapeJson(_)
EscapeJson(s) ==
    IF Len(s) = 0 THEN ""
    ELSE LET c == SubSeq(s, 1, 1)
             r == EscapeJson(SubSeq(s, 2, Len(s)))
         IN IF c = "\"" THEN "\\\"" \o r
            ELSE IF c = "\\" THEN "\\\\" \o r
            ELSE c \o r

RECURSIVE to_string(_)
RECURSIVE ObjFields(_, _, _)
RECURSIVE ArrItems(_, _)
ObjFields(m, i, first) ==
    IF i > Len(KeyOrder) THEN ""
    ELSE IF KeyOrder[i] \in DOMAIN m
         THEN (IF first THEN "" ELSE ",")
              \o "\"" \o KeyOrder[i] \o "\":" \o to_string(m[KeyOrder[i]])
              \o ObjFields(m, i + 1, FALSE)
         ELSE ObjFields(m, i + 1, first)
ArrItems(a, i) ==
    IF i > Len(a) THEN ""
    ELSE (IF i = 1 THEN "" ELSE ",") \o to_string(a[i]) \o ArrItems(a, i + 1)
\* serde_json::to_string: the compact serialization.
to_string(v) ==
    CASE v.t = "null" -> "null"
      [] v.t = "string" -> "\"" \o EscapeJson(v.s) \o "\""
      [] v.t = "number" -> ToString(v.n)
      [] v.t = "bool" -> (IF v.b THEN "true" ELSE "false")
      [] v.t = "object" -> "{" \o ObjFields(v.m, 1, TRUE) \o "}"
      [] v.t = "array" -> "[" \o ArrItems(v.a, 1) \o "]"

\* One step of the navigation loop of extract_subrequest_value.
Navigate(current, part) ==
    CASE current.t = "object" ->
            IF part \in DOMAIN current.m THEN current.m[part] ELSE JNull
      [] current.t = "array" ->
            LET index == ParseUsize(part)
            IN IF index # None /\ index[1] + 1 <= Len(current.a)
               THEN current.a[index[1] + 1]
               ELSE JNull
      [] OTHER -> JNull

RECURSIVE NavigatePath(_, _, _)
NavigatePath(current, parts, i) ==
    IF i > Len(parts) THEN current
    ELSE NavigatePath(Navigate(current, parts[i]), parts, i + 1)

\* extract_subrequest_value: parts is path.split('.'), parts[1] the name.
extract_subrequest_value(subrequest_results, parts) ==
    LET subreq_name == parts[1]
    IN IF MapHas(subrequest_results, subreq_name)
       THEN LET result == subrequest_results[subreq_name]
            IN IF Len(parts) = 1
               THEN to_string(result)
               ELSE LET current == NavigatePath(result, parts, 2)
                    IN CASE current.t = "string" -> current.s
                         [] current.t = "number" -> ToString(current.n)
                         [] current.t = "bool" ->
                                (IF current.b THEN "true" ELSE "false")
                         [] current.t = "null" -> ""
                         [] OTHER -> to_string(current)
       ELSE ""

\* HeaderMap lookups are case-insensitive: names are held in lower case.
LowerHeader(name) ==
    CASE name = "Authorization" -> "authorization"
      [] OTHER -> name

\* evaluate_expression, on an expression already split into its kind and
\* operands: header NAME, path NAME, query NAME, body, method,
\* subrequest PARTS, or an unrecognized text.
evaluate_expression(ctx, expr) ==
    CASE expr.k = "header" ->
            IF MapHas(ctx.headers, LowerHeader(expr.name))
            THEN ctx.headers[LowerHeader(expr.name)] ELSE ""
      [] expr.k = "path" ->
            IF MapHas(ctx.path_params, expr.name)
            THEN ctx.path_params[expr.name] ELSE ""
      [] expr.k = "query" ->
            IF MapHas(ctx.query_params, expr.name)
            THEN ctx.query_params[expr.name] ELSE ""
      [] expr.k = "body" -> (IF ctx.body = None THEN "" ELSE ctx.body[1])
      [] expr.k = "method" -> ctx.method
      [] expr.k = "subrequest" ->
            extract_subrequest_value(ctx.subrequest_results, expr.parts)
      [] OTHER -> "${" \o expr.text \o "}"

\* interpolate: a template is the sequence of its literal runs and its
\* ${...} occurrences, each occurrence replaced by its evaluation.
RECURSIVE interpolate(_, _)
interpolate(ctx, template) ==
    IF template = <<>> THEN ""
    ELSE LET seg == Head(template)
         IN (IF seg.k = "lit" THEN seg.text ELSE evaluate_expression(ctx, seg))
            \o interpolate(ctx, Tail(template))

\* &str helpers of the standard library, on the characters of a string.
StartsWith(s, prefix) ==
    Len(s) >= Len(prefix) /\ SubSeq(s, 1, Len(prefix)) = prefix
EndsWith(s, suffix) ==
    Len(s) >= Len(suffix) /\ SubSeq(s, Len(s) - Len(suffix) + 1, Len(s)) = suffix
StripPrefix(s, prefix) == SubSeq(s, Len(prefix) + 1, Len(s))
StripSuffix(s, suffix) == SubSeq(s, 1, Len(s) - Len(suffix))

RECURSIVE trim_matches(_, _)
trim_matches(s, c) ==
    IF Len(s) > 0 /\ SubSeq(s, 1, 1) = c
    THEN trim_matches(SubSeq(s, 2, Len(s)), c)
    ELSE IF Len(s) > 0 /\ SubSeq(s, Len(s), Len(s)) = c
    THEN trim_matches(SubSeq(s, 1, Len(s) - 1), c)
    ELSE s

\* str::trim, the whitespace of this model being the space.
trim(s) == trim_matches(s, " ")

\* str::find: the index of the first occurrence of pat at or after from,
\* 0 when there is none.
RECURSIVE FindFrom(_, _, _)
FindFrom(s, pat, from) ==
    IF from + Len(pat) - 1 > Len(s) THEN 0
    ELSE IF SubSeq(s, from, from + Len(pat) - 1) = pat THEN from
    ELSE FindFrom(s, pat, from + 1)

\* str::split(c).collect()
RECURSIVE split(_, _)
split(s, c) ==
    LET at == FindFrom(s, c, 1)
    IN IF at = 0 THEN <<s>>
       ELSE <<SubSeq(s, 1, at - 1)>> \o split(SubSeq(s, at + 1, Len(s)), c)

\* The recognition part of evaluate_expression (lines 68-114): the text
\* between the braces is trimmed and matched against the known forms; the
\* text of an expression that matches none is the trimmed text.
parse_expression(raw) ==
    LET expr == trim(raw)
        header_expr == StripPrefix(expr, "request.headers[")
    IN IF StartsWith(expr, "request.headers[") /\ EndsWith(header_expr, "]")
       THEN [k |-> "header",
             name |-> trim_matches(
                          trim_matches(StripSuffix(header_expr, "]"), "\""),
                          "'")]
       ELSE IF StartsWith(expr, "request.path.")
       THEN [k |-> "path", name |-> StripPrefix(expr, "request.path.")]
       ELSE IF StartsWith(expr, "request.query.")
       THEN [k |-> "query", name |-> StripPrefix(expr, "request.query.")]
       ELSE IF expr = "request.body" THEN [k |-> "body"]
       ELSE IF expr = "request.method" THEN [k |-> "method"]
       ELSE IF StartsWith(expr, "subrequest.")
       THEN [k |-> "subrequest",
             parts |-> split(StripPrefix(expr, "subrequest."), ".")]
       ELSE [k |-> "unrecognized", text |-> expr]

\* The matches of the regex \$\{([^}]+)\} in a template, leftmost first and
\* not overlapping, with the literal text between them (lines 11, 59-64).
RECURSIVE parse_template(_)
parse_template(s) ==
    LET open == FindFrom(s, "${", 1)
        close == IF open = 0 THEN 0 ELSE FindFrom(s, "}", open + 2)
    IN IF open = 0 \/ close = 0
       THEN <<[k |-> "lit", text |-> s]>>
       ELSE IF close = open + 2
       THEN <<[k |-> "lit", text |-> SubSeq(s, 1, open)]>>
            \o parse_template(SubSeq(s, open + 1, Len(s)))
       ELSE <<[k |-> "lit", text |-> SubSeq(s, 1, open - 1)],
              parse_expression(SubSeq(s, open + 2, close - 1))>>
            \o parse_template(SubSeq(s, close + 1, Len(s)))

\* InterpolationContext::interpolate on the text of a template.
interpolate_str(ctx, template) == interpolate(ctx, parse_template(template))

add_subrequest_result_dropped(subrequest_results, name, result) ==
    subrequest_results

\* InterpolationContext::add_subrequest_result
add_subrequest_result(subrequest_results, name, result) ==
    MapInsert(subrequest_results, name, result)

\* The InterpolationContext built by handle_route (InterpolationContext::new)
\* together with the results accumulated so far.
Context(req, subrequest_results) ==
    [headers |-> req.headers, path_params |-> req.path_params,
     query_params |-> req.query_params, body |-> req.body,
     method |-> req.method, subrequest_results |-> subrequest_results]

----------------------------------------------------------------------------
(* conditions.rs *)

\* Regex::new on the patterns of this model: literal text, with ^ in front
\* and $ behind as anchors.  A pattern with an unclosed group "(" or class
\* "[" does not compile.
regex_new(pattern) ==
    IF FindFrom(pattern, "(", 1) # 0 \/ FindFrom(pattern, "[", 1) # 0
    THEN Err("regex parse error")
    ELSE Ok(pattern)

\* Regex::is_match: an unanchored search unless the pattern is anchored.
is_match(re, text) ==
    LET from_start == StartsWith(re, "^")
        unstarted == IF from_start THEN StripPrefix(re, "^") ELSE re
        to_end == EndsWith(unstarted, "$")
        literal == IF to_end THEN StripSuffix(unstarted, "$") ELSE unstarted
    IN CASE from_start /\ to_end -> text = literal
         [] from_start /\ ~to_end -> StartsWith(text, literal)
         [] ~from_start /\ to_end -> EndsWith(text, literal)
         [] OTHER -> FindFrom(text, literal, 1) # 0

field_matches_malformed_true(context, field, pattern) ==
    LET re == regex_new(pattern)
    IN IF ~re.ok THEN TRUE
       ELSE IF MapHas(context.path_params, field)
       THEN is_match(re.v, context.path_params[field])
       ELSE IF MapHas(context.query_params, field)
       THEN is_match(re.v, context.query_params[field])
       ELSE FALSE

\* The FieldMatches arm (lines 26-35): false when the pattern does not
\* compile; otherwise the path parameter when there is one, else the query
\* parameter, is matched.
field_matches(context, field, pattern) ==
    LET re == regex_new(pattern)
    IN IF ~re.ok THEN FALSE
       ELSE IF MapHas(context.path_params, field)
       THEN is_match(re.v, context.path_params[field])
       ELSE IF MapHas(context.query_params, field)
       THEN is_match(re.v, context.query_params[field])
       ELSE FALSE

field_equals_query_first(context, field, value) ==
    IF MapHas(context.query_params, field)
    THEN context.query_params[field] = value
    ELSE IF MapHas(context.path_params, field)
    THEN context.path_params[field] = value
    ELSE FALSE

\* The FieldEquals arm (lines 15-24): the path parameter when there is one,
\* else the query parameter, is compared.
field_equals(context, field, value) ==
    IF MapHas(context.path_params, field)
    THEN context.path_params[field] = value
    ELSE IF MapHas(context.query_params, field)
    THEN context.query_params[field] = value
    ELSE FALSE

RECURSIVE evaluate_condition(_, _)
evaluate_condition(condition, context) ==
    CASE condition.k = "Always" -> TRUE
      [] condition.k = "FieldExists" ->
            MapHas(context.path_params, condition.field)
            \/ MapHas(context.query_params, condition.field)
      [] condition.k = "FieldEquals" ->
            field_equals(context, condition.field, condition.value)
      [] condition.k = "FieldMatches" ->
            field_matches(context, condition.field, condition.pattern)
      [] condition.k = "HeaderExists" ->
            MapHas(context.headers, LowerHeader(condition.header))
      [] condition.k = "HeaderEquals" ->
            IF MapHas(context.headers, LowerHeader(condition.header))
            THEN context.headers[LowerHeader(condition.header)] = condition.value
            ELSE FALSE
      [] condition.k = "QueryExists" ->
            MapHas(context.query_params, condition.param)
      [] condition.k = "QueryEquals" ->
            IF MapHas(context.query_params, condition.param)
            THEN context.query_params[condition.param] = condition.value
            ELSE FALSE
      [] condition.k = "And" ->
            \A i \in 1..Len(condition.conditions) :
                evaluate_condition(condition.conditions[i], context)
      [] condition.k = "Or" ->
            \E i \in 1..Len(condition.conditions) :
                evaluate_condition(condition.conditions[i], context)
      [] condition.k = "Not" ->
            ~evaluate_condition(condition.condition, context)

----------------------------------------------------------------------------
(* routes/handler.rs: errors *)

ClientNotFound(client_id) == [kind |-> "ClientNotFound", msg |-> client_id]
SubrequestFailed(msg) == [kind |-> "SubrequestFailed", msg |-> msg]
CircularDependency ==
    [kind |-> "CircularDependency",
     msg |-> "Circular dependency detected in subrequests"]
RouteNotFound == [kind |-> "RouteNotFound", msg |-> "Route not found"]

\* AppError::into_response
into_response(e) ==
    LET status == CASE e.kind = "ClientNotFound" -> 500
                    [] e.kind = "SubrequestFailed" -> 502
                    [] e.kind = "InvalidConfig" -> 500
                    [] e.kind = "RouteNotFound" -> 404
                    [] e.kind = "CircularDependency" -> 500
    IN [status |-> status, error |-> Some(e),
        body |-> JObj("error" :> JStr(e.msg))]

----------------------------------------------------------------------------
(* routes/handler.rs: build_execution_order *)

SeqContains(s, x) == \E i \in 1..Len(s) : s[i] = x

RECURSIVE SumLen(_)
SumLen(waves) ==
    IF waves = <<>> THEN 0 ELSE Len(Head(waves)) + SumLen(Tail(waves))

\* One pass of the for loop over subrequests (the body of `loop`), from
\* index idx on: the wave it collects and the names it marks executed.
RECURSIVE WavePass(_, _, _, _, _)
WavePass(subs, idx, waves, executed, current_wave) ==
    IF idx > Len(subs) THEN [wave |-> current_wave, executed |-> executed]
    ELSE LET subrequest == subs[idx]
             already == IF subrequest.name # None
                        THEN subrequest.name[1] \in executed
                        ELSE \E w \in 1..Len(waves) : SeqContains(waves[w], idx)
             deps_met == \A d \in 1..Len(subrequest.depends_on) :
                             subrequest.depends_on[d] \in executed
         IN IF already
            THEN WavePass(subs, idx + 1, waves, executed, current_wave)
            ELSE IF deps_met
            THEN WavePass(subs, idx + 1, waves,
                          IF subrequest.name # None
                          THEN executed \cup {subrequest.name[1]}
                          ELSE executed,
                          Append(current_wave, idx))
            ELSE WavePass(subs, idx + 1, waves, executed, current_wave)

RECURSIVE BuildWaves_keeps_empty_wave(_, _, _)
BuildWaves_keeps_empty_wave(subs, waves, executed) ==
    LET pass == WavePass(subs, 1, waves, executed, <<>>)
    IN IF pass.wave = <<>> THEN Append(waves, pass.wave)
       ELSE BuildWaves_keeps_empty_wave(subs, Append(waves, pass.wave),
                                        pass.executed)

\* The `loop`: passes until one collects an empty wave.
RECURSIVE BuildWaves(_, _, _)
BuildWaves(subs, waves, executed) ==
    LET pass == WavePass(subs, 1, waves, executed, <<>>)
    IN IF pass.wave = <<>> THEN waves
       ELSE BuildWaves(subs, Append(waves, pass.wave), pass.executed)

build_execution_order_unchecked(subs) == Ok(BuildWaves(subs, <<>>, {}))

build_execution_order(subs) ==
    LET waves == BuildWaves(subs, <<>>, {})
    IN IF SumLen(waves) # Len(subs) THEN Err(CircularDependency) ELSE Ok(waves)

----------------------------------------------------------------------------
(* transform.rs *)

\* serde_json::from_str, for JSON made of null, true, false, integers,
\* strings (with the escapes \" and \\), arrays and objects, with spaces as
\* whitespace.  A parse gives the value and the index after it.
ParseFail == [ok |-> FALSE, v |-> JNull, next |-> 0]
ParsedAt(v, next) == [ok |-> TRUE, v |-> v, next |-> next]

RECURSIVE SkipSpaces(_, _)
SkipSpaces(s, i) ==
    IF i <= Len(s) /\ SubSeq(s, i, i) = " " THEN SkipSpaces(s, i + 1) ELSE i

LooksAt(s, i, word) ==
    i + Len(word) - 1 <= Len(s) /\ SubSeq(s, i, i + Len(word) - 1) = word

RECURSIVE DigitsEnd(_, _)
DigitsEnd(s, i) ==
    IF i <= Len(s) /\ IsDigit(SubSeq(s, i, i)) THEN DigitsEnd(s, i + 1) ELSE i

\* An integer: an optional minus sign, then 0 or digits that do not start
\* with 0.
ParseNumber(s, i) ==
    LET negative == LooksAt(s, i, "-")
        first == IF negative THEN i + 1 ELSE i
        last == DigitsEnd(s, first)
    IN IF last = first THEN ParseFail
       ELSE IF LooksAt(s, first, "0") /\ last > first + 1 THEN ParseFail
       ELSE LET n == ParseDigits(SubSeq(s, first, last - 1), 0)
            IN ParsedAt(JNum(IF negative THEN 0 - n ELSE n), last)

\* The characters of a string up to its closing quote, i being the index
\* after the opening one.
RECURSIVE ParseString(_, _, _)
ParseString(s, i, acc) ==
    IF i > Len(s) THEN ParseFail
    ELSE LET c == SubSeq(s, i, i)
         IN IF c = "\"" THEN ParsedAt(JStr(acc), i + 1)
            ELSE IF c = "\\"
            THEN IF LooksAt(s, i + 1, "\"") THEN ParseString(s, i + 2, acc \o "\"")
                 ELSE IF LooksAt(s, i + 1, "\\")
                 THEN ParseString(s, i + 2, acc \o "\\")
                 ELSE ParseFail
            ELSE ParseString(s, i + 1, acc \o c)

RECURSIVE ParseValue(_, _)
RECURSIVE ParseElements(_, _, _)
RECURSIVE ParseMembers(_, _, _)

\* The elements of an array after its first one starts at i.
ParseElements(s, i, acc) ==
    LET element == ParseValue(s, i)
        after == SkipSpaces(s, element.next)
    IN IF ~element.ok THEN ParseFail
       ELSE IF LooksAt(s, after, ",")
       THEN ParseElements(s, after + 1, Append(acc, element.v))
       ELSE IF LooksAt(s, after, "]")
       THEN ParsedAt(JArr(Append(acc, element.v)), after + 1)
       ELSE ParseFail

\* The members of an object; a key that comes twice keeps its last value.
ParseMembers(s, i, acc) ==
    LET at == SkipSpaces(s, i)
        key == IF LooksAt(s, at, "\"") THEN ParseString(s, at + 1, "")
               ELSE ParseFail
        colon == IF key.ok THEN SkipSpaces(s, key.next) ELSE 0
        member == IF key.ok /\ LooksAt(s, colon, ":")
                  THEN ParseValue(s, colon + 1) ELSE ParseFail
        after == IF member.ok THEN SkipSpaces(s, member.next) ELSE 0
    IN IF ~member.ok THEN ParseFail
       ELSE LET map == (key.v.s :> member.v) @@ acc
            IN IF LooksAt(s, after, ",") THEN ParseMembers(s, after + 1, map)
               ELSE IF LooksAt(s, after, "}")
               THEN ParsedAt(JObj(map), after + 1)
               ELSE ParseFail

ParseValue(s, i) ==
    LET at == SkipSpaces(s, i)
    IN IF LooksAt(s, at, "null") THEN ParsedAt(JNull, at + 4)
       ELSE IF LooksAt(s, at, "true") THEN ParsedAt(JBool(TRUE), at + 4)
       ELSE IF LooksAt(s, at, "false") THEN ParsedAt(JBool(FALSE), at + 5)
       ELSE IF LooksAt(s, at, "\"") THEN ParseString(s, at + 1, "")
       ELSE IF LooksAt(s, at, "[")
       THEN IF LooksAt(s, SkipSpaces(s, at + 1), "]")
            THEN ParsedAt(JArr(<<>>), SkipSpaces(s, at + 1) + 1)
            ELSE ParseElements(s, at + 1, <<>>)
       ELSE IF LooksAt(s, at, "{")
       THEN IF LooksAt(s, SkipSpaces(s, at + 1), "}")
            THEN ParsedAt(JObj(EmptyMap), SkipSpaces(s, at + 1) + 1)
            ELSE ParseMembers(s, at + 1, EmptyMap)
       ELSE ParseNumber(s, at)

\* serde_json::from_str: the whole text must be one value.
from_str(s) ==
    LET parsed == ParseValue(s, 1)
    IN IF parsed.ok /\ SkipSpaces(s, parsed.next) > Len(s)
       THEN Ok(parsed.v)
       ELSE Err("expected value")

\* A value standing for a panic of the thread that computes it.
Panicked == [t |-> "panic"]

\* Value::get(&str): the member of an object, None for any other value.
ValueGet(value, key) ==
    IF value.t = "object" /\ key \in DOMAIN value.m THEN value.m[key] ELSE JNull

\* parse_array_access: the field and the index of "field[index]".  The
\* slice &part[start + 1..end] panics when the first ']' is before the
\* first '['.
parse_array_access(part) ==
    LET start == FindFrom(part, "[", 1)
        end == FindFrom(part, "]", 1)
    IN IF start = 0 \/ end = 0 THEN [panic |-> FALSE, access |-> None]
       ELSE IF end < start THEN [panic |-> TRUE, access |-> None]
       ELSE LET index == ParseUsize(SubSeq(part, start + 1, end - 1))
            IN IF index = None THEN [panic |-> FALSE, access |-> None]
               ELSE [panic |-> FALSE,
                     access |-> Some([field |-> SubSeq(part, 1, start - 1),
                                      index |-> index[1]])]

\* The loop over the parts of a path, shared by apply_filter and
\* extract_field_value.
RECURSIVE WalkParts(_, _, _)
WalkParts(current, parts, i) ==
    IF i > Len(parts) THEN current
    ELSE LET parsed == parse_array_access(parts[i])
         IN IF parsed.panic THEN Panicked
            ELSE IF parsed.access # None
            THEN LET field == parsed.access[1].field
                     index == parsed.access[1].index
                     inner == IF field # "" THEN ValueGet(current, field)
                              ELSE current
                 IN IF inner.t = "array"
                    THEN WalkParts(IF index + 1 <= Len(inner.a)
                                   THEN inner.a[index + 1] ELSE JNull,
                                   parts, i + 1)
                    ELSE JNull
            ELSE WalkParts(ValueGet(current, parts[i]), parts, i + 1)

apply_filter(value, filter) == WalkParts(value, split(filter, "."), 1)

extract_field_value(data, path) == WalkParts(data, split(path, "."), 1)

\* The key a member gets: mappings.get(&key).cloned().unwrap_or(key).
NewKey(mappings, key) == IF MapHas(mappings, key) THEN mappings[key] ELSE key

KeyIndex(key) == CHOOSE i \in 1..Len(KeyOrder) : KeyOrder[i] = key

\* The member inserted last under new_key, the map being iterated in the
\* order of its keys: the last insert is the one that stays.
LastSource(map, mappings, new_key) ==
    CHOOSE key \in DOMAIN map :
        /\ NewKey(mappings, key) = new_key
        /\ \A other \in DOMAIN map :
              NewKey(mappings, other) = new_key
              => KeyIndex(other) <= KeyIndex(key)

RECURSIVE apply_field_mappings(_, _)
apply_field_mappings(value, mappings) ==
    CASE value.t = "object" ->
            JObj([new_key \in { NewKey(mappings, key) : key \in DOMAIN value.m } |->
                     apply_field_mappings(
                         value.m[LastSource(value.m, mappings, new_key)],
                         mappings)])
      [] value.t = "array" ->
            JArr([i \in 1..Len(value.a) |->
                     apply_field_mappings(value.a[i], mappings)])
      [] OTHER -> value

filter_fields_top_level(value, include, exclude) ==
    CASE value.t = "object" ->
            JObj([key \in { k \in DOMAIN value.m :
                              IF include # <<>> THEN SeqContains(include, k)
                              ELSE ~SeqContains(exclude, k) } |->
                     value.m[key]])
      [] OTHER -> value

RECURSIVE filter_fields(_, _, _)
filter_fields(value, include, exclude) ==
    CASE value.t = "object" ->
            JObj([key \in { k \in DOMAIN value.m :
                              IF include # <<>> THEN SeqContains(include, k)
                              ELSE ~SeqContains(exclude, k) } |->
                     filter_fields(value.m[key], include, exclude)])
      [] value.t = "array" ->
            JArr([i \in 1..Len(value.a) |->
                     filter_fields(value.a[i], include, exclude)])
      [] OTHER -> value

\* str::replace: every occurrence of pat, left to right, not overlapping.
RECURSIVE Replace(_, _, _)
Replace(s, pat, to) ==
    LET at == FindFrom(s, pat, 1)
    IN IF at = 0 THEN s
       ELSE SubSeq(s, 1, at - 1) \o to
            \o Replace(SubSeq(s, at + Len(pat), Len(s)), pat, to)

\* The matches of \$\{response\.([^}]+)\} in a text, leftmost first: each
\* with its whole text and its captured path.
RECURSIVE ResponseCaptures(_)
ResponseCaptures(s) ==
    LET open == FindFrom(s, "${response.", 1)
        from == open + Len("${response.")
        close == IF open = 0 THEN 0 ELSE FindFrom(s, "}", from)
    IN IF open = 0 \/ close = 0 THEN <<>>
       ELSE IF close = from
       THEN ResponseCaptures(SubSeq(s, open + 1, Len(s)))
       ELSE <<[full |-> SubSeq(s, open, close),
               path |-> SubSeq(s, from, close - 1)]>>
            \o ResponseCaptures(SubSeq(s, close + 1, Len(s)))

\* The text a value is inserted as (lines 151-157).
ValueText(value) ==
    CASE value.t = "string" -> value.s
      [] value.t = "number" -> ToString(value.n)
      [] value.t = "bool" -> (IF value.b THEN "true" ELSE "false")
      [] value.t = "null" -> ""
      [] OTHER -> to_string(value)

\* The loop of interpolate_response_data over the captures of the template:
\* each replaces every occurrence of its text in the result so far.
RECURSIVE ReplaceCaptures(_, _, _, _)
ReplaceCaptures(result, captures, i, data) ==
    IF i > Len(captures) THEN result
    ELSE ReplaceCaptures(
             Replace(result, captures[i].full,
                     ValueText(extract_field_value(data, captures[i].path))),
             captures, i + 1, data)

interpolate_response_data(template, data) ==
    ReplaceCaptures(template, ResponseCaptures(template), 1, data)

\* apply_template: the request data first, then the response data, then
\* the text is parsed as JSON, or kept as a string when it is not JSON.
apply_template(template, data, context) ==
    LET text == interpolate_response_data(interpolate_str(context, template),
                                          data)
        parsed == from_str(text)
    IN IF parsed.ok THEN parsed.v ELSE JStr(text)

FilterStepUnconditional(result, transform) ==
    apply_filter(result, IF transform.filter # None THEN transform.filter[1]
                         ELSE "")

\* The four steps of apply_transformation, each applied only when it is
\* configured.
FilterStep(result, transform) ==
    IF transform.filter # None THEN apply_filter(result, transform.filter[1])
    ELSE result

MappingsStep(result, transform) ==
    IF transform.field_mappings # EmptyMap
    THEN apply_field_mappings(result, transform.field_mappings)
    ELSE result

FieldsStep(result, transform) ==
    IF transform.include_fields # <<>> \/ transform.exclude_fields # <<>>
    THEN filter_fields(result, transform.include_fields,
                       transform.exclude_fields)
    ELSE result

TemplateStep(result, transform, context) ==
    IF transform.template # None
    THEN apply_template(transform.template[1], result, context)
    ELSE result

apply_transformation_fields_first(value, transform, context) ==
    LET filtered == FilterStep(value, transform)
    IN IF filtered = Panicked THEN Panicked
       ELSE TemplateStep(
                MappingsStep(FieldsStep(filtered, transform), transform),
                transform, context)

apply_transformation(value, transform, context) ==
    LET filtered == FilterStep(value, transform)
    IN IF filtered = Panicked THEN Panicked
       ELSE TemplateStep(
                FieldsStep(MappingsStep(filtered, transform), transform),
                transform, context)

----------------------------------------------------------------------------
(* routes/handler.rs: execute_http_subrequest *)

\* The part of execute_http_subrequest before execute_request is awaited:
\* the client lookup and the interpolation of the uri.
HttpPrepare(ids, subrequest, ctx) ==
    IF subrequest.client_id \notin ids
    THEN Err(ClientNotFound(subrequest.client_id))
    ELSE Ok(interpolate(ctx, subrequest.uri))

\* The part after it: the outcome of execute_request mapped to the result.
HttpResult(subrequest, outcome) ==
    IF outcome.ok
    THEN Ok(JObj([client_id |-> JStr(subrequest.client_id),
                  type |-> JStr("http"),
                  status |-> JNum(outcome.v.status),
                  body |-> JStr(outcome.v.body),
                  headers |-> JObj(EmptyMap)]))
    ELSE Err(SubrequestFailed(outcome.err))

\* The envelope of handle_route (no response_transform configured).
Envelope(values) ==
    [status |-> 200, error |-> None,
     body |-> JObj([subrequests |-> JArr(values), count |-> JNum(Len(values))])]

\* The response of handle_route (lines 63-73): the envelope, shaped by the
\* route's response_transform, when there is one, against the context of
\* handle_route, whose subrequest_results are master_results.
Respond(values, master_results) ==
    LET envelope == Envelope(values)
    IN IF response_transform = None THEN envelope
       ELSE [envelope EXCEPT
                !.body = apply_transformation(
                             envelope.body, response_transform[1],
                             Context(request, master_results))]

NoTask == [st |-> "none", ctx |-> EmptyMap, uri |-> "", res |-> None]

ConditionIgnored(subrequest, ctx) == TRUE

\* Whether the subrequest passes its condition (absent: it does).
ConditionMet(subrequest, ctx) ==
    subrequest.condition = None \/ evaluate_condition(subrequest.condition[1], ctx)

----------------------------------------------------------------------------
(* routes/handler.rs: execute_parallel *)

\* The inner for loop over a wave (lines 133-159): a subrequest whose
\* condition fails is skipped, every other one gets a future holding a
\* clone of context_clone.
StartWave(wave, ctxres, tsk) ==
    [i \in DOMAIN tsk |->
        IF SeqContains(wave, i)
        THEN IF ConditionMet(subrequests[i], Context(request, ctxres))
             THEN [st |-> "pending", ctx |-> ctxres, uri |-> "", res |-> None]
             ELSE [NoTask EXCEPT !.st = "skipped"]
        ELSE tsk[i]]

\* join_all(wave_futures).await returns once every future of the wave has.
WaveNotAwaited(wave, tsk) == TRUE

WaveComplete(wave, tsk) ==
    \A i \in 1..Len(wave) : tsk[wave[i]].st \in {"skipped", "done"}

\* The loop over wave_results (lines 165-175), in the order the futures were
\* pushed: results are stored and collected up to the first Err.
RECURSIVE CollectWave(_, _, _, _, _)
RECURSIVE CollectWaveSkipErr(_, _, _, _, _)
CollectWaveSkipErr(wave, i, tsk, ctxres, allres) ==
    IF i > Len(wave) THEN [err |-> None, ctx |-> ctxres, all |-> allres]
    ELSE LET idx == wave[i]
         IN IF tsk[idx].st # "done" \/ ~tsk[idx].res[1].ok
            THEN CollectWaveSkipErr(wave, i + 1, tsk, ctxres, allres)
            ELSE CollectWaveSkipErr(wave, i + 1, tsk,
                     IF subrequests[idx].name # None
                     THEN add_subrequest_result(ctxres, subrequests[idx].name[1],
                                                tsk[idx].res[1].v)
                     ELSE ctxres,
                     Append(allres, <<idx, tsk[idx].res[1].v>>))

CollectWave(wave, i, tsk, ctxres, allres) ==
    IF i > Len(wave) THEN [err |-> None, ctx |-> ctxres, all |-> allres]
    ELSE LET idx == wave[i]
         IN IF tsk[idx].st # "done"
            THEN CollectWave(wave, i + 1, tsk, ctxres, allres)
            ELSE LET result == tsk[idx].res[1]
                     name == subrequests[idx].name
                 IN IF result.ok
                    THEN CollectWave(wave, i + 1, tsk,
                             IF name # None
                             THEN add_subrequest_result(ctxres, name[1], result.v)
                             ELSE ctxres,
                             Append(allres, <<idx, result.v>>))
                    ELSE [err |-> Some(result.err), ctx |-> ctxres,
                          all |-> allres]

\* all_results.sort_by_key(|(idx, _)| *idx): a stable sort by index.
RECURSIVE InsertByKey(_, _)
InsertByKey(sorted, pair) ==
    IF sorted = <<>> THEN <<pair>>
    ELSE IF Head(sorted)[1] <= pair[1]
         THEN <<Head(sorted)>> \o InsertByKey(Tail(sorted), pair)
         ELSE <<pair>> \o sorted

RECURSIVE sort_by_key(_)
sort_by_key_identity(pairs) == pairs

sort_by_key(pairs) ==
    IF pairs = <<>> THEN <<>>
    ELSE InsertByKey(sort_by_key(SubSeq(pairs, 1, Len(pairs) - 1)),
                     pairs[Len(pairs)])

Values(pairs) == [i \in 1..Len(pairs) |-> pairs[i][2]]

\* handle_route entering execute_parallel: the plan, then the first wave's
\* futures, up to the first join_all.
StartParallel ==
    /\ pc = "start"
    /\ execution_mode = "Parallel"
    /\ LET order == build_execution_order(subrequests)
       IN IF ~order.ok
          THEN /\ response' = Some(into_response(order.err))
               /\ pc' = "done"
               /\ UNCHANGED <<execution_order, wave_no, task>>
          ELSE IF order.v = <<>>
          THEN /\ response' = Some(Respond(<<>>, EmptyMap))
               /\ pc' = "done"
               /\ UNCHANGED <<execution_order, wave_no, task>>
          ELSE /\ execution_order' = order.v
               /\ wave_no' = 1
               /\ task' = StartWave(order.v[1], context_results, task)
               /\ pc' = "join"
               /\ UNCHANGED response
    /\ UNCHANGED <<subrequests, execution_mode, http_clients, request, seq_idx,
                   context_results, all_results, results>>
    /\ UNCHANGED <<httpVars, lbVars, routerVars, configVars, sideVars, pureVars>>

\* A future of the wave is polled for the first time: the client lookup and
\* the interpolation against its own snapshot, then the request is sent.
TaskPoll(idx) ==
    /\ pc = "join"
    /\ task[idx].st = "pending"
    /\ LET prepared == HttpPrepare(http_clients, subrequests[idx],
                                   Context(request, task[idx].ctx))
       IN task' = [task EXCEPT ![idx] =
                     IF prepared.ok
                     THEN [@ EXCEPT !.st = "inflight", !.uri = prepared.v]
                     ELSE [@ EXCEPT !.st = "done", !.res = Some(prepared)]]
    /\ UNCHANGED <<subrequests, execution_mode, http_clients, request, pc,
                   execution_order, wave_no, seq_idx, context_results,
                   all_results, results, response>>
    /\ UNCHANGED <<httpVars, lbVars, routerVars, configVars, sideVars, pureVars>>

\* What execute_request can return to a subrequest.
BackendOutcomes ==
    { Ok([status |-> 200, body |-> "{\"id\":\"42\"}"]),
      Ok([status |-> 404, body |-> "nf"]),
      Err("error sending request") }

\* execute_request returns outcome to a future of the wave.
TaskCompleteWith(idx, outcome) ==
    /\ pc = "join"
    /\ task[idx].st = "inflight"
    /\ task' = [task EXCEPT ![idx] =
                  [@ EXCEPT !.st = "done",
                            !.res = Some(HttpResult(subrequests[idx], outcome))]]
    /\ UNCHANGED <<subrequests, execution_mode, http_clients, request, pc,
                   execution_order, wave_no, seq_idx, context_results,
                   all_results, results, response>>

TaskComplete(idx) ==
    /\ \E outcome \in BackendOutcomes : TaskCompleteWith(idx, outcome)
    /\ UNCHANGED <<httpVars, lbVars, routerVars, configVars, sideVars, pureVars>>

\* join_all returns: the wave's results are collected; on an Err the request
\* fails, otherwise the next wave's futures are created, or, after the last
\* wave, the results are sorted and the envelope is returned.  The results
\* were stored in context_clone (line 127): the context of handle_route,
\* borrowed immutably (line 121), still has none.
WaveJoin ==
    /\ pc = "join"
    /\ WaveComplete(execution_order[wave_no], task)
    /\ LET got == CollectWave(execution_order[wave_no], 1, task,
                              context_results, all_results)
       IN IF got.err # None
          THEN /\ response' = Some(into_response(got.err[1]))
               /\ pc' = "done"
               /\ context_results' = got.ctx
               /\ all_results' = got.all
               /\ UNCHANGED <<wave_no, task>>
          ELSE IF wave_no < Len(execution_order)
          THEN /\ wave_no' = wave_no + 1
               /\ context_results' = got.ctx
               /\ all_results' = got.all
               /\ task' = StartWave(execution_order[wave_no + 1], got.ctx, task)
               /\ UNCHANGED <<pc, response>>
          ELSE /\ all_results' = sort_by_key(got.all)
               /\ context_results' = got.ctx
               /\ response' = Some(Respond(Values(sort_by_key(got.all)),
                                            EmptyMap))
               /\ pc' = "done"
               /\ UNCHANGED <<wave_no, task>>
    /\ UNCHANGED <<subrequests, execution_mode, http_clients, request,
                   execution_order, seq_idx, results>>
    /\ UNCHANGED <<httpVars, lbVars, routerVars, configVars, sideVars, pureVars>>

----------------------------------------------------------------------------
(* routes/handler.rs: execute_sequential *)

\* The for loop of execute_sequential from index i up to its next await:
\* subrequests whose condition fails are skipped; the first one that passes
\* is prepared and sent, or fails the request when its client is unknown;
\* past the last subrequest the envelope is returned.
RECURSIVE SeqRun(_, _, _, _)
SeqRun(i, tsk, ctxres, res) ==
    IF i > Len(subrequests)
    THEN [pc |-> "done", seq_idx |-> i, task |-> tsk,
          response |-> Some(Respond(res, ctxres))]
    ELSE IF ~ConditionMet(subrequests[i], Context(request, ctxres))
    THEN SeqRun(i + 1, [tsk EXCEPT ![i].st = "skipped"], ctxres, res)
    ELSE LET prepared == HttpPrepare(http_clients, subrequests[i],
                                     Context(request, ctxres))
         IN IF prepared.ok
            THEN [pc |-> "seq_wait", seq_idx |-> i,
                  task |-> [tsk EXCEPT ![i] =
                              [st |-> "inflight", ctx |-> ctxres,
                               uri |-> prepared.v, res |-> None]],
                  response |-> None]
            ELSE [pc |-> "done", seq_idx |-> i,
                  task |-> [tsk EXCEPT ![i] =
                              [st |-> "done", ctx |-> ctxres, uri |-> "",
                               res |-> Some(prepared)]],
                  response |-> Some(into_response(prepared.err))]

\* handle_route entering execute_sequential, up to the first await.
StartSequential ==
    /\ pc = "start"
    /\ execution_mode = "Sequential"
    /\ LET run == SeqRun(1, task, context_results, results)
       IN /\ pc' = run.pc
          /\ seq_idx' = run.seq_idx
          /\ task' = run.task
          /\ response' = run.response
    /\ UNCHANGED <<subrequests, execution_mode, http_clients, request,
                   execution_order, wave_no, context_results, all_results,
                   results>>
    /\ UNCHANGED <<httpVars, lbVars, routerVars, configVars, sideVars, pureVars>>

\* execute_request returns to the awaited subrequest: an Err fails the
\* request; a result is stored under the subrequest's name and pushed, and
\* the loop goes on to its next await.
SeqCompleteWith(outcome) ==
    /\ pc = "seq_wait"
    /\ LET result == HttpResult(subrequests[seq_idx], outcome)
           name == subrequests[seq_idx].name
           done == [task EXCEPT ![seq_idx] =
                       [@ EXCEPT !.st = "done", !.res = Some(result)]]
       IN IF ~result.ok
          THEN /\ task' = done
               /\ response' = Some(into_response(result.err))
               /\ pc' = "done"
               /\ UNCHANGED <<seq_idx, context_results, results>>
          ELSE LET ctxres == IF name # None
                             THEN add_subrequest_result(context_results,
                                                        name[1], result.v)
                             ELSE context_results
                   res == Append(results, result.v)
                   run == SeqRun(seq_idx + 1, done, ctxres, res)
               IN /\ context_results' = ctxres
                  /\ results' = res
                  /\ pc' = run.pc
                  /\ seq_idx' = run.seq_idx
                  /\ task' = run.task
                  /\ response' = run.response
    /\ UNCHANGED <<subrequests, execution_mode, http_clients, request,
                   execution_order, wave_no, all_results>>

SeqComplete ==
    /\ \E outcome \in BackendOutcomes : SeqCompleteWith(outcome)
    /\ UNCHANGED <<httpVars, lbVars, routerVars, configVars, sideVars, pureVars>>

----------------------------------------------------------------------------
(* middleware/circuit_breaker.rs: the failsafe state machine built by      *)
(* create_circuit_breaker (consecutive_failures policy, constant backoff)  *)

\* create_circuit_breaker: a closed breaker with no failure counted.
create_circuit_breaker ==
    [state |-> "Closed", consecutive_failures |-> 0, until |-> 0]

always_permitted(breaker, config, t) == [permitted |-> TRUE, cb |-> breaker]

\* CircuitBreakerWrapper::is_call_permitted: closed and half-open permit; an
\* open breaker permits, and turns half-open, once the clock is past `until`.
is_call_permitted(breaker, config, t) ==
    IF breaker.state = "Open"
    THEN IF t > breaker.until
         THEN [permitted |-> TRUE, cb |-> [breaker EXCEPT !.state = "HalfOpen"]]
         ELSE [permitted |-> FALSE, cb |-> breaker]
    ELSE [permitted |-> TRUE, cb |-> breaker]

\* The policy's mark_dead_on_failure: count the failure; dead at the threshold.
mark_dead_above_threshold(breaker, config) ==
    [count |-> breaker.consecutive_failures + 1,
     dead |-> breaker.consecutive_failures + 1 > config.failure_threshold]

mark_dead_on_failure(breaker, config) ==
    [count |-> breaker.consecutive_failures + 1,
     dead |-> breaker.consecutive_failures + 1 >= config.failure_threshold]

on_success_stays_half_open(breaker) == [breaker EXCEPT !.consecutive_failures = 0]

\* on_success: a half-open breaker closes; the failure count is reset.
on_success(breaker) ==
    [breaker EXCEPT !.state = IF @ = "HalfOpen" THEN "Closed" ELSE @,
                    !.consecutive_failures = 0]

\* on_error: a closed breaker opens when the policy marks it dead, a
\* half-open one opens again; `until` is the clock plus the timeout.
on_error(breaker, config, t) ==
    LET marked == mark_dead_on_failure(breaker, config)
    IN CASE breaker.state = "Closed" ->
                IF marked.dead
                THEN [state |-> "Open", consecutive_failures |-> marked.count,
                      until |-> t + config.timeout_seconds]
                ELSE [breaker EXCEPT !.consecutive_failures = marked.count]
         [] breaker.state = "HalfOpen" ->
                [state |-> "Open", consecutive_failures |-> marked.count,
                 until |-> t + config.timeout_seconds]
         [] OTHER -> breaker

\* CircuitBreakerWrapper::call(f): rejected (f not run, nothing recorded)
\* unless is_call_permitted; otherwise f's outcome is recorded.
cb_call(breaker, config, t, ok) ==
    LET asked == is_call_permitted(breaker, config, t)
    IN IF ~asked.permitted THEN asked.cb
       ELSE IF ok THEN on_success(asked.cb)
       ELSE on_error(asked.cb, config, t)

----------------------------------------------------------------------------
(* clients/http.rs: HttpClient::execute_request *)

NumCallers == 2
MaxTime == 3
MaxStreak == 3

Callers == 1..NumCallers
Active(c) == call[c].pc \in {"inflight", "sleep"}
Min(a, b) == IF a < b THEN a ELSE b

IdleCall == [pc |-> "idle", attempt |-> 0, sends |-> 0, sleeps |-> 0]

\* self.config.retry.map(|r| r.max_retries).unwrap_or(0)
max_retries == IF cfg.retry = None THEN 0 ELSE cfg.retry[1].max_retries
\* ... .map(|r| r.initial_backoff_ms).unwrap_or(100), and max_backoff_ms
\* likewise; the retry loop sleeps only when retry is configured.
initial_backoff == cfg.retry[1].initial_backoff_ms
max_backoff == cfg.retry[1].max_backoff_ms

\* u64 arithmetic, on words of U64Bits bits.
U64Bits == 4
U64Modulus == 2 ^ U64Bits

\* (initial_backoff * 2_u64.pow(attempt - 1)).min(max_backoff) (line 164):
\* a build with overflow checks panics when the power or the product leaves
\* u64, a build without them wraps both.
backoff_ms(initial, max, attempt, checks) ==
    LET power == 2 ^ (attempt - 1)
    IN IF checks /\ (power >= U64Modulus \/ initial * power >= U64Modulus)
       THEN Err("attempt to multiply with overflow")
       ELSE Ok(Min((initial * (power % U64Modulus)) % U64Modulus, max))

\* The uri execute_request is called with: the interpolated uri of the
\* subrequest the caller runs, "/x" when the client is called directly.
RequestUri(c) ==
    IF c \in DOMAIN task /\ task[c].st = "inflight" THEN task[c].uri ELSE "/x"

\* The responses a backend can send.
Responses ==
    { [status |-> 200, body |-> "{\"id\":\"42\"}"],
      [status |-> 404, body |-> "nf"],
      [status |-> 500, body |-> "oops"] }

\* The outcome of a call entering the history: a call whose every attempt
\* failed to send lengthens the streak of failed calls, a success ends it; a
\* response received (its body read or not) ends the streak of failed sends;
\* the call that turned the breaker half-open is the probe until it ends;
\* the status of the response a call received is kept.
RecordCall(h, c, outcome) ==
    LET ended == [h EXCEPT !.probe = IF @ = c THEN 0 ELSE @]
    IN CASE outcome = "failed" ->
               [ended EXCEPT !.streak = Min(@ + 1, MaxStreak), !.last_fail = now]
         [] outcome = "ok" -> [ended EXCEPT !.streak = 0, !.attempt_streak = 0]
         [] outcome = "body_err" -> [ended EXCEPT !.attempt_streak = 0]

\* execute_request is entered: the breaker is asked once (lines 61-67); a
\* refusal returns "Circuit breaker is open"; otherwise the url is formed
\* from base_url (line 69) and the first attempt is sent (lines 104-127).
CallStart(c) ==
    /\ ~Active(c)
    /\ call[c].pc # "panicked"
    /\ LET asked == IF cfg.circuit_breaker = None
                    THEN [permitted |-> TRUE, cb |-> cb]
                    ELSE is_call_permitted(cb, cfg.circuit_breaker[1], now)
       IN /\ cb' = asked.cb
          /\ call' = [call EXCEPT ![c] =
                        IF asked.permitted
                        THEN [pc |-> "inflight", attempt |-> 0, sends |-> 1,
                              sleeps |-> 0]
                        ELSE [pc |-> "rejected", attempt |-> 0, sends |-> 0,
                              sleeps |-> 0]]
          /\ url' = [url EXCEPT ![c] =
                       IF asked.permitted THEN cfg.base_url \o RequestUri(c)
                       ELSE ""]
          /\ ret' = [ret EXCEPT ![c] =
                       IF asked.permitted THEN None
                       ELSE Some(Err("Circuit breaker is open"))]
          /\ backoff' = [backoff EXCEPT ![c] = 0]
          /\ hist' = [hist EXCEPT
                        !.overlapped =
                           @ \/ (asked.permitted /\ \E d \in Callers \ {c} : Active(d)),
                        !.probe =
                           IF cb.state = "Open" /\ asked.cb.state = "HalfOpen"
                           THEN c ELSE @,
                        !.status[c] = 0]
    /\ UNCHANGED <<cfg, now, overflow_checks>>
    /\ UNCHANGED <<orchVars, lbVars, routerVars, configVars, sideVars, pureVars>>

error_status_fails(c, received) ==
    IF received.status < 400
    THEN /\ cb' = IF cfg.circuit_breaker = None THEN cb
                  ELSE cb_call(cb, cfg.circuit_breaker[1], now, TRUE)
         /\ call' = [call EXCEPT ![c].pc = "ok"]
         /\ hist' = [RecordCall(hist, c, "ok") EXCEPT
                        !.status[c] = received.status]
         /\ ret' = [ret EXCEPT ![c] = Some(Ok(received))]
    ELSE /\ cb' = IF cfg.circuit_breaker = None THEN cb
                  ELSE cb_call(cb, cfg.circuit_breaker[1], now, FALSE)
         /\ call' = [call EXCEPT ![c].pc = "failed"]
         /\ hist' = [RecordCall(hist, c, "failed") EXCEPT
                        !.status[c] = received.status]
         /\ ret' = [ret EXCEPT ![c] = Some(Err("HTTP status error"))]

\* request.send().await returns a response and its body is read: whatever
\* its status, success is recorded with the breaker and the response
\* returned (lines 128-154).
ResponseReturned(c, received) ==
    /\ cb' = IF cfg.circuit_breaker = None THEN cb
             ELSE cb_call(cb, cfg.circuit_breaker[1], now, TRUE)
    /\ call' = [call EXCEPT ![c].pc = "ok"]
    /\ hist' = [RecordCall(hist, c, "ok") EXCEPT !.status[c] = received.status]
    /\ ret' = [ret EXCEPT ![c] = Some(Ok(received))]

AttemptSucceeds(c) ==
    /\ call[c].pc = "inflight"
    /\ \E received \in Responses : ResponseReturned(c, received)
    /\ UNCHANGED <<cfg, now, url, backoff, overflow_checks>>
    /\ UNCHANGED <<orchVars, lbVars, routerVars, configVars, sideVars, pureVars>>

\* request.send().await returns a response but response.text().await fails:
\* the error is returned by `?` (line 136).
BodyReadFails(c) ==
    /\ call[c].pc = "inflight"
    /\ call' = [call EXCEPT ![c].pc = "body_err"]
    /\ hist' = RecordCall(hist, c, "body_err")
    /\ ret' = [ret EXCEPT ![c] = Some(Err("error decoding response body"))]
    /\ UNCHANGED <<cfg, cb, now, url, backoff, overflow_checks>>
    /\ UNCHANGED <<orchVars, lbVars, routerVars, configVars, sideVars, pureVars>>

\* request.send().await fails (lines 155-171, 174-179): the attempt is
\* counted; past max_retries the failure is recorded with the breaker and
\* returned, otherwise the backoff is computed and slept, unless computing
\* it panics.
AttemptFails(c) ==
    /\ call[c].pc = "inflight"
    /\ LET attempt == call[c].attempt + 1
           counted == [hist EXCEPT !.attempt_streak = Min(@ + 1, MaxStreak),
                                   !.last_attempt_fail = now]
       IN IF attempt > max_retries
          THEN /\ cb' = IF cfg.circuit_breaker = None THEN cb
                        ELSE cb_call(cb, cfg.circuit_breaker[1], now, FALSE)
               /\ call' = [call EXCEPT ![c].pc = "failed", ![c].attempt = attempt]
               /\ hist' = RecordCall(counted, c, "failed")
               /\ ret' = [ret EXCEPT ![c] = Some(Err("error sending request"))]
               /\ UNCHANGED backoff
          ELSE LET slept == backoff_ms(initial_backoff, max_backoff, attempt,
                                       overflow_checks)
               IN /\ IF slept.ok
                     THEN /\ call' = [call EXCEPT ![c].pc = "sleep",
                                                  ![c].attempt = attempt,
                                                  ![c].sleeps = @ + 1]
                          /\ backoff' = [backoff EXCEPT ![c] = slept.v]
                     ELSE /\ call' = [call EXCEPT ![c].pc = "panicked",
                                                  ![c].attempt = attempt]
                          /\ UNCHANGED backoff
                  /\ hist' = counted
                  /\ UNCHANGED <<cb, ret>>
    /\ UNCHANGED <<cfg, now, url, overflow_checks>>
    /\ UNCHANGED <<orchVars, lbVars, routerVars, configVars, sideVars, pureVars>>

\* tokio::time::sleep returns: the loop sends the next attempt.
Wake(c) ==
    /\ call[c].pc = "sleep"
    /\ call' = [call EXCEPT ![c].pc = "inflight", ![c].sends = @ + 1]
    /\ UNCHANGED <<cfg, cb, now, hist, url, backoff, ret, overflow_checks>>
    /\ UNCHANGED <<orchVars, lbVars, routerVars, configVars, sideVars, pureVars>>

\* The clock advances by a second.
Tick ==
    /\ now < MaxTime
    /\ now' = now + 1
    /\ UNCHANGED <<cfg, cb, call, hist, url, backoff, ret, overflow_checks>>
    /\ UNCHANGED <<orchVars, lbVars, routerVars, configVars, sideVars, pureVars>>

RetryConfigs ==
    { None,
      Some([max_retries |-> 1, initial_backoff_ms |-> 1, max_backoff_ms |-> 2]) }
BreakerConfigs ==
    { None } \cup
    { Some([failure_threshold |-> f, timeout_seconds |-> 1]) : f \in {1, 2} }

\* HttpClientConfig: a client of one base_url under each retry and breaker
\* setting, and clients of two backends under a load-balancing strategy.
SingleUrlConfigs ==
    { [base_url |-> "http://b0", backends |-> <<>>, load_balance |-> None,
       retry |-> r, circuit_breaker |-> b] :
         r \in RetryConfigs, b \in BreakerConfigs }
BalancedConfigs ==
    { [base_url |-> "", backends |-> <<"http://b1", "http://b2">>,
       load_balance |-> Some(s),
       retry |-> Some([max_retries |-> 1, initial_backoff_ms |-> 1,
                       max_backoff_ms |-> 2]),
       circuit_breaker |-> None] :
         s \in {"RoundRobin", "LeastConnections"} }

\* The callers' variables before any call.
InitCalls ==
    /\ call = [c \in Callers |-> IdleCall]
    /\ url = [c \in Callers |-> ""]
    /\ backoff = [c \in Callers |-> 0]
    /\ ret = [c \in Callers |-> None]
    /\ hist = [streak |-> 0, attempt_streak |-> 0, last_fail |-> 0,
               last_attempt_fail |-> 0, overlapped |-> FALSE, probe |-> 0,
               status |-> [c \in Callers |-> 0]]

\* HttpClient::new
InitHttp ==
    /\ cfg \in SingleUrlConfigs \cup BalancedConfigs
    /\ cb = create_circuit_breaker
    /\ now = 0
    /\ overflow_checks = FALSE
    /\ InitCalls

\* The client while no call is made on it.
InitHttpIdle ==
    /\ cfg = [base_url |-> "http://b0", backends |-> <<>>,
              load_balance |-> None, retry |-> None, circuit_breaker |-> None]
    /\ cb = create_circuit_breaker
    /\ now = 0
    /\ overflow_checks = FALSE
    /\ InitCalls

----------------------------------------------------------------------------
(* clients/load_balancer.rs: LoadBalancer *)

\* usize arithmetic of the atomic counters, on words of UsizeBits bits.
UsizeBits == 3
UsizeModulus == 2 ^ UsizeBits
UsizeMax == UsizeModulus - 1

MaxBackends == 3
MaxPicks == 6
MaxConnections == 1

BackendUrl(i) == "http://b" \o ToString(i)
Strategies == {"RoundRobin", "Random", "LeastConnections"}

\* LoadBalancer::new
NewLoadBalancer(backends, strategy) ==
    [backends |-> backends, strategy |-> strategy, round_robin_counter |-> 0,
     connection_counts |-> [i \in 1..Len(backends) |-> 0]]

IdlePick == [pc |-> "idle", current |-> 0, i |-> 1, min_connections |-> 0,
             min_index |-> 1, seen |-> <<>>, picked |-> None]

\* AtomicUsize::fetch_add(1) and fetch_sub(1): the value before, and the
\* value stored, which wraps.
fetch_add_not_stored(value) == [old |-> value, new |-> value]
fetch_add(value) == [old |-> value, new |-> (value + 1) % UsizeModulus]
fetch_sub(value) == [old |-> value, new |-> (value + UsizeModulus - 1) % UsizeModulus]

\* round_robin: the ticket modulo the number of backends.
round_robin_index(current, n) == (current % n) + 1

\* One turn of the loop of least_connections: the count is loaded and taken
\* as the minimum when it is strictly smaller.
least_connections_last_wins(s, connections) ==
    [s EXCEPT !.min_connections = IF connections <= @ THEN connections ELSE @,
              !.min_index = IF connections <= s.min_connections THEN s.i ELSE @,
              !.i = @ + 1,
              !.seen = Append(@, connections)]

least_connections_turn(s, connections) ==
    [s EXCEPT !.min_connections = IF connections < @ THEN connections ELSE @,
              !.min_index = IF connections < s.min_connections THEN s.i ELSE @,
              !.i = @ + 1,
              !.seen = Append(@, connections)]

\* select_backend is entered by picker p (on the balancer or a clone of it,
\* which shares the counters): None when there is no backend; otherwise the
\* strategy's first step: the round-robin ticket is taken, the random index
\* is drawn and returned, or the scan of least_connections begins.
SelectStart(p) ==
    /\ scan[p].pc \in {"idle", "done"}
    /\ Len(picks) < MaxPicks
    /\ LET n == Len(lb.backends)
       IN IF n = 0
          THEN /\ scan' = [scan EXCEPT ![p] = [IdlePick EXCEPT !.pc = "done"]]
               /\ UNCHANGED <<lb, picks>>
          ELSE CASE lb.strategy = "RoundRobin" ->
                    LET got == fetch_add(lb.round_robin_counter)
                    IN /\ lb' = [lb EXCEPT !.round_robin_counter = got.new]
                       /\ scan' = [scan EXCEPT ![p] =
                                     [IdlePick EXCEPT !.pc = "ticket",
                                                      !.current = got.old]]
                       /\ picks' = Append(picks, [by |-> p, current |-> got.old,
                                                  index |-> 0])
                 [] lb.strategy = "Random" ->
                    \E index \in 1..n :
                       /\ scan' = [scan EXCEPT ![p] =
                                     [IdlePick EXCEPT
                                        !.pc = "done",
                                        !.picked = Some(lb.backends[index])]]
                       /\ UNCHANGED <<lb, picks>>
                 [] lb.strategy = "LeastConnections" ->
                    /\ scan' = [scan EXCEPT ![p] =
                                  [IdlePick EXCEPT !.pc = "scan",
                                                   !.min_connections = UsizeMax]]
                    /\ UNCHANGED <<lb, picks>>
    /\ UNCHANGED <<orchVars, httpVars, routerVars, configVars, sideVars, pureVars>>

\* The index of p's last ticket among the tickets handed out.
PickOf(p) ==
    CHOOSE k \in 1..Len(picks) :
        picks[k].by = p /\ \A j \in (k + 1)..Len(picks) : picks[j].by # p

\* round_robin returns and select_backend returns backends[index].
RoundRobinReturn(p) ==
    /\ scan[p].pc = "ticket"
    /\ LET index == round_robin_index(scan[p].current, Len(lb.backends))
       IN /\ scan' = [scan EXCEPT ![p].pc = "done",
                                  ![p].picked = Some(lb.backends[index])]
          /\ picks' = [picks EXCEPT ![PickOf(p)].index = index]
    /\ UNCHANGED lb
    /\ UNCHANGED <<orchVars, httpVars, routerVars, configVars, sideVars, pureVars>>

\* One count is loaded by the scan of least_connections; after the last one
\* min_index is returned and select_backend returns backends[min_index].
LeastConnectionsLoad(p) ==
    /\ scan[p].pc = "scan"
    /\ LET turned == least_connections_turn(scan[p],
                                            lb.connection_counts[scan[p].i])
       IN IF turned.i <= Len(lb.backends)
          THEN scan' = [scan EXCEPT ![p] = turned]
          ELSE scan' = [scan EXCEPT ![p] =
                          [turned EXCEPT
                             !.pc = "done",
                             !.picked = Some(lb.backends[turned.min_index])]]
    /\ UNCHANGED <<lb, picks>>
    /\ UNCHANGED <<orchVars, httpVars, routerVars, configVars, sideVars, pureVars>>

\* increment_connections(index): fetch_add on the count, nothing when the
\* index is out of range.
increment_connections(index) ==
    /\ index \in DOMAIN lb.connection_counts
    /\ lb.connection_counts[index] < MaxConnections
          \/ lb.connection_counts[index] = UsizeMax
    /\ lb' = [lb EXCEPT !.connection_counts[index] = fetch_add(@).new]
    /\ UNCHANGED <<scan, picks>>
    /\ UNCHANGED <<orchVars, httpVars, routerVars, configVars, sideVars, pureVars>>

\* decrement_connections(index): fetch_sub on the count, which wraps to
\* usize::MAX from 0.
decrement_connections(index) ==
    /\ index \in DOMAIN lb.connection_counts
    /\ lb.connection_counts[index] <= MaxConnections
    /\ lb' = [lb EXCEPT !.connection_counts[index] = fetch_sub(@).new]
    /\ UNCHANGED <<scan, picks>>
    /\ UNCHANGED <<orchVars, httpVars, routerVars, configVars, sideVars, pureVars>>

\* No LoadBalancer is constructed by HttpClient::new or ClientManager.
InitLbIdle ==
    /\ lb = NewLoadBalancer(<<>>, "RoundRobin")
    /\ scan = [p \in Callers |-> IdlePick]
    /\ picks = <<>>

\* Config::validate, for the route that serves the requests: every
\* subrequest's client_id is a key of config.clients.
validate(config_clients, subs) ==
    \A i \in 1..Len(subs) : subs[i].client_id \in DOMAIN config_clients

\* ClientManager::from_config: the ids that get_http_client knows are those
\* of the clients configured as ClientConfig::Http.
HttpClientIds(config_clients) ==
    { id \in DOMAIN config_clients : config_clients[id] = "http" }

\* The configuration: the HTTP client c1 and the Redis client c9, routes of
\* HTTP subrequests, no response_transform.
InitConfigPlain ==
    /\ clients = ("c1" :> "http") @@ ("c9" :> "redis")
    /\ response_transform = None

\* No call of interpolate, evaluate_condition or apply_transformation is
\* under way on its own.
InitExpansionIdle ==
    expansion = [pc |-> "idle", template |-> "", output |-> ""]
InitEvaluationIdle ==
    evaluation = [pc |-> "idle", condition |-> [k |-> "Always"], result |-> None]
InitShapingIdle ==
    shaping = [pc |-> "idle", transform |-> None, data |-> JNull,
               result |-> JNull]
InitHealthIdle ==
    health = [backends |-> EmptyMap, checks |-> <<>>, ticks |-> 0,
              report |-> None, op |-> None]
InitTrafficIdle == traffic = [pc |-> "idle"]
InitDedupIdle == dedup = [cache |-> EmptyMap, now |-> 0, reqs |-> <<>>]
InitReloadIdle ==
    reload = [file |-> [k |-> "missing"], events |-> <<>>, seen |-> 0,
              sent |-> <<>>, inbox |-> <<>>, current |-> None]
InitSideIdle ==
    InitHealthIdle /\ InitTrafficIdle /\ InitDedupIdle /\ InitReloadIdle
InitPureIdle ==
    InitExpansionIdle /\ InitEvaluationIdle /\ InitShapingIdle /\ InitSideIdle

----------------------------------------------------------------------------
(* The routes and requests the model is run on *)

MaxSubrequests == 2

Lit(text) == [k |-> "lit", text |-> text]
SubrequestExpr(parts) == [k |-> "subrequest", parts |-> parts]

AuthCondition ==
    [k |-> "HeaderEquals", header |-> "Authorization", value |-> "Bearer t"]

\* What a subrequest asks of its client: a plain call, a call under a
\* condition, a call whose uri is templated on subrequest A's result, and a
\* call to a client that is not configured.
Flavors ==
    { [client_id |-> "c1", condition |-> None, uri |-> <<Lit("/x")>>],
      [client_id |-> "c1", condition |-> Some(AuthCondition),
       uri |-> <<Lit("/x")>>],
      [client_id |-> "c1", condition |-> None,
       uri |-> <<Lit("/u/"), SubrequestExpr(<<"A", "body", "id">>)>>],
      [client_id |-> "c9", condition |-> None, uri |-> <<Lit("/x")>>] }

SubrequestConfigs ==
    { [name |-> n, depends_on |-> d, client_id |-> f.client_id,
       condition |-> f.condition, uri |-> f.uri] :
        n \in {None, Some("A"), Some("B")},
        d \in {<<>>, <<"A">>, <<"B">>},
        f \in Flavors }

Routes == UNION { [1..n -> SubrequestConfigs] : n \in 0..MaxSubrequests }

Requests ==
    { [headers |-> h, path_params |-> EmptyMap, query_params |-> EmptyMap,
       body |-> Some(""), method |-> "GET", path |-> "/r1"] :
        h \in {EmptyMap, "authorization" :> "Bearer t"} }

\* The router after it handed the request to handle_route, which took
\* routes.first().
InitRouted ==
    /\ routes = <<[method |-> "GET", path |-> "/r1"]>>
    /\ served = 1

Init ==
    /\ subrequests \in Routes
    /\ execution_mode \in {"Parallel", "Sequential"}
    /\ http_clients = {"c1"}
    /\ request \in Requests
    /\ pc = "start"
    /\ execution_order = <<>>
    /\ wave_no = 0
    /\ seq_idx = 0
    /\ context_results = EmptyMap
    /\ task = [i \in 1..Len(subrequests) |-> NoTask]
    /\ all_results = <<>>
    /\ results = <<>>
    /\ response = None
    /\ InitHttpIdle
    /\ InitLbIdle
    /\ InitRouted
    /\ InitConfigPlain
    /\ InitPureIdle

Next ==
    \/ StartParallel
    \/ \E idx \in 1..Len(subrequests) : TaskPoll(idx)
    \/ \E idx \in 1..Len(subrequests) : TaskComplete(idx)
    \/ WaveJoin
    \/ StartSequential
    \/ SeqComplete

Spec == Init /\ [][Next]_vars

----------------------------------------------------------------------------
(* Properties of the orchestrator *)

N == Len(subrequests)
Planned == execution_mode = "Parallel" /\ pc \in {"join", "done"}
                /\ execution_order # <<>>
InPlan(idx) == \E w \in 1..Len(execution_order) : SeqContains(execution_order[w], idx)
WaveOf(idx) == CHOOSE w \in 1..Len(execution_order) :
                   SeqContains(execution_order[w], idx)
Named(idx, name) == subrequests[idx].name = Some(name)
Dispatched(idx) == task[idx].st = "inflight"
                      \/ (task[idx].st = "done" /\ task[idx].uri # "")
Succeeded(idx) == task[idx].st = "done" /\ task[idx].res[1].ok
Failed(idx) == task[idx].st = "done" /\ ~task[idx].res[1].ok
HasSnapshot(idx) == task[idx].st \in {"pending", "inflight", "done"}

\* C1: in every plan of build_execution_order each subrequest lies in a wave
\* strictly later than the wave of every subrequest named in its depends_on.
C1_DependenciesInEarlierWaves ==
    Planned =>
        \A i \in 1..N : \A d \in 1..Len(subrequests[i].depends_on) :
            \A j \in 1..N :
                (Named(j, subrequests[i].depends_on[d]) /\ InPlan(i) /\ InPlan(j))
                    => WaveOf(j) < WaveOf(i)

\* C2: in parallel mode the results map of the snapshot a subrequest Y is
\* expanded against holds an entry for X exactly when X names a subrequest of
\* a strictly earlier wave that was executed and succeeded.
C2_SnapshotHoldsEarlierWavesOnly ==
    Planned =>
        \A y \in 1..N : HasSnapshot(y) =>
            DOMAIN task[y].ctx =
                { subrequests[x].name[1] :
                    x \in { x \in 1..N : /\ subrequests[x].name # None
                                         /\ InPlan(x)
                                         /\ WaveOf(x) < WaveOf(y)
                                         /\ Succeeded(x) } }

C2_Witness ==
    /\ Planned
    /\ \E x, y \in 1..N :
          /\ WaveOf(y) = 2 /\ WaveOf(x) = 1
          /\ Dispatched(y)
          /\ subrequests[x].name # None
          /\ subrequests[x].name[1] \in DOMAIN task[y].ctx

\* C3: in parallel mode every subrequest of wave k has completed before the
\* backend call of any subrequest of wave k+1 is started.
C3_WaveCompletesBeforeNextStarts ==
    Planned =>
        \A i, j \in 1..N :
            (InPlan(i) /\ InPlan(j) /\ WaveOf(j) = WaveOf(i) + 1 /\ Dispatched(j))
                => task[i].st \in {"done", "skipped"}

C3_Witness ==
    /\ Planned
    /\ \E i, j \in 1..N :
          /\ WaveOf(j) = WaveOf(i) + 1
          /\ task[j].st = "inflight"
          /\ Succeeded(i)

RECURSIVE ExecutedValues(_)
ExecutedValues(i) ==
    IF i > N THEN <<>>
    ELSE (IF task[i].st = "done" THEN <<task[i].res[1].v>> ELSE <<>>)
         \o ExecutedValues(i + 1)

ConditionFalse(idx) ==
    /\ subrequests[idx].condition # None
    /\ ~evaluate_condition(subrequests[idx].condition[1],
                           Context(request, context_results))

\* C4: in both modes the envelope's subrequests array holds exactly the
\* results of the executed (non-skipped) subrequests in ascending definition
\* index, and count is the array's length.
C4_EnvelopeInDefinitionOrder ==
    (response # None /\ response[1].status = 200) =>
        /\ \A i \in 1..N : task[i].st = (IF ConditionFalse(i) THEN "skipped" ELSE "done")
        /\ response[1].body.m["subrequests"] = JArr(ExecutedValues(1))
        /\ response[1].body.m["count"] = JNum(Len(ExecutedValues(1)))

C4_Witness ==
    /\ Planned
    /\ response # None /\ response[1].status = 200
    /\ N = 2 /\ WaveOf(1) = 2 /\ WaveOf(2) = 1
    /\ response[1].body.m["count"] = JNum(2)
    /\ task[1].res # task[2].res

\* The relation "a subrequest named n lists d in its depends_on", and the
\* transitive closure of a relation.
DependsOnNames ==
    UNION { { <<subrequests[i].name[1], subrequests[i].depends_on[d]>> :
                d \in 1..Len(subrequests[i].depends_on) } :
            i \in { i \in 1..N : subrequests[i].name # None } }

RECURSIVE TransitiveClosure(_)
TransitiveClosure(R) ==
    LET step == R \cup UNION { { <<p[1], q[2]>> : q \in { q \in R : q[1] = p[2] } } :
                               p \in R }
    IN IF step = R THEN R ELSE TransitiveClosure(step)

HasCycle == \E p \in TransitiveClosure(DependsOnNames) : p[1] = p[2]
HasDangling ==
    \E i \in 1..N : \E d \in 1..Len(subrequests[i].depends_on) :
        \A j \in 1..N : ~Named(j, subrequests[i].depends_on[d])

\* C5: in parallel mode a route whose depends_on relation has a cycle (a
\* self-dependency included) or names a subrequest that does not exist fails
\* with CircularDependency (500) and dispatches no subrequest.
C5_CycleOrDanglingRejected ==
    (execution_mode = "Parallel" /\ pc # "start" /\ (HasCycle \/ HasDangling)) =>
        /\ pc = "done"
        /\ response # None
        /\ response[1].status = 500
        /\ response[1].error = Some(CircularDependency)
        /\ \A i \in 1..N : task[i].st = "none"

C5_Witness ==
    /\ execution_mode = "Parallel" /\ pc = "done"
    /\ N = 2
    /\ Named(1, "A") /\ subrequests[1].depends_on = <<"B">>
    /\ Named(2, "B") /\ subrequests[2].depends_on = <<"A">>
    /\ HasCycle /\ ~HasDangling
    /\ response[1].status = 500

\* C6: for [A, B] in parallel mode with B.depends_on = [A] and
\* B.uri = /u/${subrequest.A.body.id}, when A's backend returns {"id":"42"}
\* the uri that B dispatches is /u/42.
C6_DependentUriResolved ==
    ( /\ execution_mode = "Parallel"
      /\ N = 2
      /\ Named(1, "A") /\ subrequests[1].depends_on = <<>>
      /\ Named(2, "B") /\ subrequests[2].depends_on = <<"A">>
      /\ subrequests[2].uri = <<Lit("/u/"), SubrequestExpr(<<"A", "body", "id">>)>>
      /\ Succeeded(1)
      /\ task[1].res[1].v.m["body"] = JStr("{\"id\":\"42\"}")
      /\ Dispatched(2) )
    => task[2].uri = "/u/42"

\* The subrequests that have put a result under the name of subrequest idx.
StoredUnderNameOf(idx) ==
    { j \in 1..N : /\ subrequests[j].name = subrequests[idx].name
                   /\ Succeeded(j) }

\* C7: in both modes a subrequest whose condition is false is never
\* dispatched, adds no element to the output and no entry to the results
\* map, so a later ${subrequest.NAME...} reference expands to "".
C7_SkippedLeavesNoTrace ==
    \A i \in 1..N : ConditionFalse(i) =>
        /\ task[i].st \in {"none", "skipped"}
        /\ task[i].uri = "" /\ task[i].res = None
        /\ \A k \in 1..Len(all_results) : all_results[k][1] # i
        /\ Len(results) <= Cardinality({ j \in 1..N : ~ConditionFalse(j) })
        /\ (response # None /\ response[1].status = 200) =>
              response[1].body.m["count"] =
                  JNum(Cardinality({ j \in 1..N : ~ConditionFalse(j) }))
        /\ (subrequests[i].name # None /\ StoredUnderNameOf(i) = {}) =>
              /\ ~MapHas(context_results, subrequests[i].name[1])
              /\ \A j \in 1..N : ~MapHas(task[j].ctx, subrequests[i].name[1])
              /\ \A j \in 1..N :
                    ( /\ Dispatched(j)
                      /\ subrequests[j].uri =
                           <<Lit("/u/"),
                             SubrequestExpr(<<subrequests[i].name[1], "body", "id">>)>> )
                    => task[j].uri = "/u/"

C7_Witness ==
    /\ N = 2
    /\ ConditionFalse(1) /\ Named(1, "A")
    /\ task[1].st = "skipped"
    /\ subrequests[2].uri = <<Lit("/u/"), SubrequestExpr(<<"A", "body", "id">>)>>
    /\ Succeeded(2)
    /\ task[2].uri = "/u/"
    /\ response # None /\ response[1].body.m["count"] = JNum(1)

\* Whether subrequest j comes after subrequest i: in a later wave (parallel
\* mode), later in definition order (sequential mode).
Later(j, i) ==
    IF execution_mode = "Parallel"
    THEN InPlan(i) /\ InPlan(j) /\ WaveOf(j) > WaveOf(i)
    ELSE j > i

\* C8: when a subrequest fails (backend error or unknown client) the request
\* returns an error response without envelope, and no subrequest of a later
\* wave (parallel) or later in definition order (sequential) is dispatched.
C8_FailureFailsRequest ==
    \A i \in 1..N : Failed(i) =>
        /\ \A j \in 1..N : Later(j, i) => task[j].st = "none"
        /\ pc = "done" =>
              /\ response # None
              /\ response[1].status \in {500, 502}
              /\ \E k \in 1..N : Failed(k) /\ response[1].error = Some(task[k].res[1].err)
              /\ DOMAIN response[1].body.m = {"error"}

C8_Witness ==
    /\ pc = "done"
    /\ \E i, j \in 1..N :
          /\ Failed(i) /\ task[i].res[1].err.kind = "SubrequestFailed"
          /\ Later(j, i) /\ task[j].st = "none"
    /\ response[1].status = 502

----------------------------------------------------------------------------
(* The specification of one HttpClient under concurrent calls *)

InitOrchIdle ==
    /\ subrequests = <<>>
    /\ execution_mode = "Parallel"
    /\ http_clients = {"c1"}
    /\ request = [headers |-> EmptyMap, path_params |-> EmptyMap,
                  query_params |-> EmptyMap, body |-> None, method |-> "GET",
                  path |-> "/r1"]
    /\ pc = "idle"
    /\ execution_order = <<>>
    /\ wave_no = 0
    /\ seq_idx = 0
    /\ context_results = EmptyMap
    /\ task = <<>>
    /\ all_results = <<>>
    /\ results = <<>>
    /\ response = None
    /\ routes = <<>>
    /\ served = 0
    /\ InitConfigPlain

InitClient == InitOrchIdle /\ InitHttp /\ InitLbIdle /\ InitPureIdle

NextClient ==
    \/ \E c \in Callers : CallStart(c)
    \/ \E c \in Callers : AttemptSucceeds(c)
    \/ \E c \in Callers : BodyReadFails(c)
    \/ \E c \in Callers : AttemptFails(c)
    \/ \E c \in Callers : Wake(c)
    \/ Tick

SpecClient == InitClient /\ [][NextClient]_vars

----------------------------------------------------------------------------
(* Properties of the HTTP client and its circuit breaker *)

HasBreaker == cfg.circuit_breaker # None
Threshold == cfg.circuit_breaker[1].failure_threshold
Timeout == cfg.circuit_breaker[1].timeout_seconds
BreakerOpen == HasBreaker /\ cb.state = "Open" /\ now <= cb.until

\* Caller c enters execute_request in this step, no other call being made
\* and no two calls having overlapped before.
StartsAlone(c) ==
    /\ ~Active(c)
    /\ call'[c] # call[c]
    /\ \A d \in Callers : ~Active(d)
    /\ ~hist.overlapped
Rejected(c) == call'[c].pc = "rejected" /\ call'[c].sends = 0

Arrives(c) == ~Active(c) /\ call'[c] # call[c]

C12_ErrorOnlyAfterAllAttempts ==
    \A c \in Callers :
        /\ call[c].sends <= max_retries + 1
        /\ call[c].sends <= call[c].attempt + 1
        /\ call[c].pc = "ok" => call[c].sends = call[c].attempt + 1
        /\ call[c].pc \in {"failed", "body_err"}
              => call[c].attempt = max_retries + 1

----------------------------------------------------------------------------
(* The specification of the retry loop of one call, over the u64 range of  *)
(* initial_backoff_ms and max_backoff_ms and both kinds of build           *)

InitBackoff ==
    /\ InitOrchIdle
    /\ InitLbIdle
    /\ InitPureIdle
    /\ cfg \in { [base_url |-> "http://b0", backends |-> <<>>,
                  load_balance |-> None, circuit_breaker |-> None,
                  retry |-> Some([max_retries |-> U64Bits + 1,
                                  initial_backoff_ms |-> i,
                                  max_backoff_ms |-> m])] :
                   i \in 0..U64Modulus - 1, m \in 0..U64Modulus - 1 }
    /\ cb = create_circuit_breaker
    /\ now = 0
    /\ overflow_checks \in BOOLEAN
    /\ InitCalls

NextBackoff ==
    \/ CallStart(1)
    \/ AttemptSucceeds(1)
    \/ AttemptFails(1)
    \/ Wake(1)

SpecBackoff == InitBackoff /\ [][NextBackoff]_vars

\* C13: the sleep before the n-th retry, for every n up to max_retries and
\* every u64 initial_backoff_ms and max_backoff_ms, is
\* min(initial_backoff_ms * 2^(n-1), max_backoff_ms): it never exceeds
\* max_backoff_ms and never decreases from one retry to the next.
C13_BackoffIsClampedDoubling ==
    [][\A c \in Callers :
         ( /\ call[c].pc = "inflight"
           /\ call[c].attempt < max_retries
           /\ call'[c].attempt = call[c].attempt + 1 )
         => /\ call'[c].pc = "sleep"
            /\ backoff'[c] = Min(initial_backoff * (2 ^ call[c].attempt),
                                 max_backoff)
            /\ backoff'[c] <= max_backoff
            /\ backoff'[c] >= backoff[c]]_vars

----------------------------------------------------------------------------
(* The specification of one LoadBalancer under concurrent select_backend   *)
(* calls and connection-count updates                                      *)

InitBalancer ==
    /\ InitOrchIdle
    /\ InitHttpIdle
    /\ InitPureIdle
    /\ lb \in { NewLoadBalancer([i \in 1..n |-> BackendUrl(i)], strategy) :
                  n \in 0..MaxBackends, strategy \in Strategies }
    /\ scan = [p \in Callers |-> IdlePick]
    /\ picks = <<>>

NextBalancer ==
    \/ \E p \in Callers : SelectStart(p)
    \/ \E p \in Callers : RoundRobinReturn(p)
    \/ \E p \in Callers : LeastConnectionsLoad(p)
    \/ \E index \in 1..MaxBackends : increment_connections(index)
    \/ \E index \in 1..MaxBackends : decrement_connections(index)

SpecBalancer == InitBalancer /\ [][NextBalancer]_vars

NumBackends == Len(lb.backends)
Returned(k) == picks[k].index # 0

\* C15: under round-robin the k-th select_backend call (k from 0) gets
\* ticket k, none handed twice or skipped, and returns backends[k mod n],
\* whatever the interleaving of the callers; over any whole number of rounds
\* every backend is picked the same number of times.
C15_RoundRobinCycles ==
    (lb.strategy = "RoundRobin" /\ NumBackends > 0) =>
        /\ \A k \in 1..Len(picks) :
              /\ picks[k].current = k - 1
              /\ Returned(k) => picks[k].index = ((k - 1) % NumBackends) + 1
        /\ \A p \in Callers :
              scan[p].pc = "done" =>
                 scan[p].picked =
                    Some(lb.backends[((PickOf(p) - 1) % NumBackends) + 1])
        /\ ( /\ Len(picks) % NumBackends = 0
             /\ \A k \in 1..Len(picks) : Returned(k) )
           => \A b \in 1..NumBackends :
                 Cardinality({k \in 1..Len(picks) : picks[k].index = b})
                    = Len(picks) \div NumBackends

C15_Witness ==
    /\ lb.strategy = "RoundRobin" /\ NumBackends = 3
    /\ Len(picks) = 6
    /\ \A k \in 1..Len(picks) : Returned(k)
    /\ picks[1].by # picks[2].by /\ picks[3].by = picks[4].by
    /\ \A b \in 1..3 : Cardinality({k \in 1..6 : picks[k].index = b}) = 2

SeqMin(seq) == CHOOSE v \in {seq[j] : j \in DOMAIN seq} :
                  \A j \in DOMAIN seq : v <= seq[j]

\* C16: under least-connections select_backend returns the backend whose
\* count, as loaded by the scan, is smallest, the lowest index among ties,
\* for every combination of counts (usize::MAX after a wrap included).
C16_LeastConnectionsLowestIndex ==
    \A p \in Callers :
        (lb.strategy = "LeastConnections" /\ scan[p].pc = "done"
           /\ NumBackends > 0) =>
            /\ Len(scan[p].seen) = NumBackends
            /\ scan[p].seen[scan[p].min_index] = SeqMin(scan[p].seen)
            /\ \A j \in 1..(scan[p].min_index - 1) :
                  scan[p].seen[j] > SeqMin(scan[p].seen)
            /\ scan[p].picked = Some(lb.backends[scan[p].min_index])

C16_Witness ==
    /\ lb.strategy = "LeastConnections" /\ NumBackends = 3
    /\ \E p \in Callers :
          /\ scan[p].pc = "done"
          /\ scan[p].seen = <<UsizeMax, 1, 1>>
          /\ scan[p].picked = Some(BackendUrl(2))
          /\ lb.connection_counts = scan[p].seen

----------------------------------------------------------------------------
(* Properties of the HTTP client and its backends *)

RECURSIVE SumCounts(_, _)
SumCounts(counts, i) ==
    IF i > Len(counts) THEN 0 ELSE counts[i] + SumCounts(counts, i + 1)

InFlightCalls == {c \in Callers : call[c].pc = "inflight"}

\* C17: for a least-connections client the chosen backend's counter is
\* incremented before each dispatch and decremented once on every exit, so
\* the counters add up to the number of calls in flight (and none is below
\* zero).
C17_CountersEqualInFlight ==
    cfg.load_balance = Some("LeastConnections") =>
        /\ SumCounts(lb.connection_counts, 1) = Cardinality(InFlightCalls)
        /\ \A i \in DOMAIN lb.connection_counts :
              lb.connection_counts[i] <= NumCallers

\* C18: a client configured with several backend urls sends every call to
\* one of them, the one its strategy picked; only a client of a single url
\* goes to that url directly.
C18_SentToSelectedBackend ==
    \A c \in Callers :
        call[c].pc = "inflight" =>
            IF Len(cfg.backends) >= 2
            THEN \E i \in 1..Len(cfg.backends) :
                    url[c] = cfg.backends[i] \o RequestUri(c)
            ELSE url[c] = cfg.base_url \o RequestUri(c)

----------------------------------------------------------------------------
(* routes/mod.rs: build_router, and the whole path of one request: the     *)
(* router, handle_route, the subrequests and the HttpClient they call      *)

\* What the router answers when no registered path matches: 404, no body.
NotFoundFallback == [status |-> 404, error |-> None, body |-> JNull]

\* build_router registers every route's path with any(handle_route).
PathRegistered(path) == \E i \in 1..Len(routes) : routes[i].path = path

\* handle_route: state.config.routes.first(), whatever the method and the
\* path of the request.
handle_route_first(table, req) == IF table = <<>> THEN None ELSE Some(1)

\* The request reaches the router: a path that is not registered gets the
\* fallback; otherwise handle_route runs and takes its route.
Route ==
    /\ pc = "recv"
    /\ IF ~PathRegistered(request.path)
       THEN /\ response' = Some(NotFoundFallback)
            /\ pc' = "done"
            /\ UNCHANGED served
       ELSE LET route_config == handle_route_first(routes, request)
            IN IF route_config = None
               THEN /\ response' = Some(into_response(RouteNotFound))
                    /\ pc' = "done"
                    /\ UNCHANGED served
               ELSE /\ served' = route_config[1]
                    /\ pc' = "start"
                    /\ UNCHANGED response
    /\ UNCHANGED <<subrequests, execution_mode, http_clients, request,
                   execution_order, wave_no, seq_idx, context_results, task,
                   all_results, results, routes>>
    /\ UNCHANGED <<httpVars, lbVars, configVars, sideVars, pureVars>>

\* execute_http_subrequest calls client.execute_request for subrequest idx.
Dispatch(idx) ==
    /\ idx \in DOMAIN task
    /\ task[idx].st = "inflight"
    /\ call[idx].pc = "idle"
    /\ CallStart(idx)

\* execute_request returns to the future of subrequest idx of the wave.
TaskReturn(idx) ==
    /\ ret[idx] # None
    /\ TaskCompleteWith(idx, ret[idx][1])
    /\ UNCHANGED <<httpVars, lbVars, routerVars, configVars, sideVars, pureVars>>

\* execute_request returns to the awaited subrequest of execute_sequential.
SeqReturn ==
    /\ pc = "seq_wait"
    /\ ret[seq_idx] # None
    /\ SeqCompleteWith(ret[seq_idx][1])
    /\ UNCHANGED <<httpVars, lbVars, routerVars, configVars, sideVars, pureVars>>

\* The subrequests of the first route: a call, a named call, a call to a
\* client that is configured but is not an HTTP client, a subrequest that
\* depends on itself, one that depends on a name no subrequest has.
GatewaySubrequests ==
    { [name |-> None, depends_on |-> <<>>, client_id |-> "c1",
       condition |-> None, uri |-> <<Lit("/x")>>],
      [name |-> Some("A"), depends_on |-> <<>>, client_id |-> "c1",
       condition |-> None, uri |-> <<Lit("/x")>>],
      [name |-> None, depends_on |-> <<>>, client_id |-> "c9",
       condition |-> None, uri |-> <<Lit("/x")>>],
      [name |-> Some("A"), depends_on |-> <<"A">>, client_id |-> "c1",
       condition |-> None, uri |-> <<Lit("/x")>>],
      [name |-> None, depends_on |-> <<"Z">>, client_id |-> "c1",
       condition |-> None, uri |-> <<Lit("/x")>>] }

GatewayRoutes ==
    UNION { [1..n -> GatewaySubrequests] :
              n \in 0..Min(MaxSubrequests, NumCallers) }

\* config.routes: the declared (method, path) pairs; build_router panics on
\* a path registered twice, so the paths differ.
RouteTables ==
    { <<>>,
      <<[method |-> "GET", path |-> "/r1"]>>,
      <<[method |-> "GET", path |-> "/r1"], [method |-> "POST", path |-> "/r2"]>> }

GatewayRequests ==
    { [headers |-> EmptyMap, path_params |-> EmptyMap, query_params |-> EmptyMap,
       body |-> Some(""), method |-> m, path |-> p] :
        m \in {"GET", "POST"}, p \in {"/r1", "/r2", "/zz"} }

\* The client c1 and its breaker as earlier requests left it: closed, or
\* open since the present moment.
GatewayClients ==
    LET resilient ==
          [base_url |-> "http://b0", backends |-> <<>>, load_balance |-> None,
           retry |-> Some([max_retries |-> 1, initial_backoff_ms |-> 1,
                           max_backoff_ms |-> 2]),
           circuit_breaker |-> Some([failure_threshold |-> 1,
                                     timeout_seconds |-> 1])]
    IN { [cfg |-> [resilient EXCEPT !.retry = None, !.circuit_breaker = None],
          cb |-> create_circuit_breaker],
         [cfg |-> resilient, cb |-> create_circuit_breaker],
         [cfg |-> resilient,
          cb |-> [state |-> "Open", consecutive_failures |-> 1, until |-> 1]] }

InitGateway ==
    /\ InitConfigPlain
    /\ routes \in RouteTables
    /\ served = 0
    /\ subrequests \in GatewayRoutes
    /\ routes = <<>> => subrequests = <<>>
    /\ execution_mode \in {"Parallel", "Sequential"}
    /\ http_clients = HttpClientIds(clients)
    /\ validate(clients, subrequests)
    /\ request \in GatewayRequests
    /\ pc = "recv"
    /\ execution_order = <<>>
    /\ wave_no = 0
    /\ seq_idx = 0
    /\ context_results = EmptyMap
    /\ task = [i \in 1..Len(subrequests) |-> NoTask]
    /\ all_results = <<>>
    /\ results = <<>>
    /\ response = None
    /\ \E client \in GatewayClients : cfg = client.cfg /\ cb = client.cb
    /\ now = 0
    /\ overflow_checks = FALSE
    /\ InitCalls
    /\ InitLbIdle
    /\ InitPureIdle

NextGateway ==
    \/ Route
    \/ StartParallel
    \/ \E idx \in 1..Len(subrequests) : TaskPoll(idx)
    \/ \E idx \in 1..Len(subrequests) : Dispatch(idx)
    \/ \E c \in Callers : AttemptSucceeds(c)
    \/ \E c \in Callers : BodyReadFails(c)
    \/ \E c \in Callers : AttemptFails(c)
    \/ \E c \in Callers : Wake(c)
    \/ \E idx \in 1..Len(subrequests) : TaskReturn(idx)
    \/ WaveJoin
    \/ StartSequential
    \/ SeqReturn

SpecGateway == InitGateway /\ [][NextGateway]_vars

----------------------------------------------------------------------------
(* Properties of one request through the gateway (SpecGateway)             *)

ExecutedTasks == { idx \in DOMAIN task : task[idx].st = "done" }

\* The statuses the envelope of the response shows, one per subrequest.
EnvelopeStatuses ==
    LET entries == response[1].body.m.subrequests.a
    IN { entries[k].m.status : k \in 1..Len(entries) }

\* The answer to a request whose executed subrequests all got an HTTP
\* response: 200, with every backend status in the envelope.
StatusShownInEnvelope ==
    (/\ pc = "done"
     /\ ExecutedTasks # {}
     /\ \A idx \in ExecutedTasks : hist.status[idx] # 0)
    => /\ response[1].status = 200
       /\ \A idx \in ExecutedTasks : JNum(hist.status[idx]) \in EnvelopeStatuses

\* C14: a response that arrives with any HTTP status, 4xx and 5xx included,
\* makes the call succeed with that status: it is not retried, the breaker
\* does not count a failure (a closed or half-open breaker is closed with a
\* count of zero), and the gateway still answers 200 with the backend's
\* status in the envelope.
C14_AnyStatusIsSuccess ==
    [][/\ \A c \in Callers :
            (hist.status[c] = 0 /\ hist'.status[c] # 0)
            => /\ ret'[c] # None
               /\ ret'[c][1].ok
               /\ ret'[c][1].v.status = hist'.status[c]
               /\ call'[c].pc = "ok"
               /\ call'[c].sends = call[c].sends
               /\ call'[c].sleeps = call[c].sleeps
               /\ cb'.consecutive_failures <= cb.consecutive_failures
               /\ cb'.state = "Open" => cb' = cb
               /\ (cfg.circuit_breaker # None /\ cb.state # "Open")
                  => cb'.state = "Closed" /\ cb'.consecutive_failures = 0
       /\ StatusShownInEnvelope']_vars

\* A request answered 200 whose envelope shows a backend's 500, sent by a
\* client that has a retry policy and a breaker.
C14_Witness ==
    /\ pc = "done"
    /\ response[1].status = 200
    /\ cfg.retry # None
    /\ cfg.circuit_breaker # None
    /\ \E idx \in ExecutedTasks :
          /\ hist.status[idx] = 500
          /\ call[idx].sends = 1
          /\ JNum(500) \in EnvelopeStatuses

Matches(i) ==
    /\ routes[i].method = request.method
    /\ routes[i].path = request.path

\* C19: a request is handled by the route declared with exactly its method
\* and path; a request that matches no declared route is answered 404 and
\* runs no subrequest.
C19_DispatchByMethodAndPath ==
    pc # "recv"
    => /\ served # 0 => Matches(served)
       /\ (~ \E i \in 1..Len(routes) : Matches(i))
          => /\ served = 0
             /\ pc = "done"
             /\ response[1].status = 404
             /\ \A idx \in DOMAIN task : task[idx].st = "none"

ErrorBody(msg) == JObj("error" :> JStr(msg))

\* C20: every request gets exactly one of 200, 404, 500, 502: 200 only when
\* every executed subrequest completed, 404 exactly when no declared route
\* has the method and the path of the request, 500 for a plan with a cycle
\* or a subrequest whose client is not configured, 502 for a call that
\* failed or was rejected; the body of a 500 or a 502 carries the message of
\* the error.
C20_OutcomeToStatus ==
    pc = "done"
    => LET r == response[1]
       IN /\ r.status \in {200, 404, 500, 502}
          /\ r.status = 404 <=> ~ \E i \in 1..Len(routes) : Matches(i)
          /\ r.status = 200
             => /\ \A idx \in ExecutedTasks :
                      /\ subrequests[idx].client_id \in http_clients
                      /\ ret[idx] # None
                      /\ ret[idx][1].ok
                /\ \A idx \in DOMAIN task : task[idx].st \in {"done", "skipped"}
          /\ r.status = 500
             => \/ \E idx \in ExecutedTasks :
                      /\ subrequests[idx].client_id \notin http_clients
                      /\ r.body = ErrorBody(subrequests[idx].client_id)
                \/ /\ execution_mode = "Parallel"
                   /\ ExecutedTasks = {}
                   /\ r.body = ErrorBody("Circular dependency detected in subrequests")
          /\ r.status = 502
             => \E idx \in ExecutedTasks :
                   /\ ret[idx] # None
                   /\ ~ ret[idx][1].ok
                   /\ r.body = ErrorBody(ret[idx][1].err)
          /\ (\E idx \in ExecutedTasks : ret[idx] # None /\ ~ ret[idx][1].ok)
             => r.status \in {500, 502}

----------------------------------------------------------------------------
(* interpolation.rs: interpolate on the text of a template                 *)

MaxPieces == 3

\* The pieces a template is written with: plain text, expressions that are
\* not recognized, one that is.
PlainPieces == {"ab", " ", "$", "}"}
UnrecognizedPieces == {"${foo}", "${ foo }", "${request.nope}", "${}"}
RecognizedPieces == {"${request.method}"}
Pieces == PlainPieces \cup UnrecognizedPieces \cup RecognizedPieces

RECURSIVE Concat(_)
Concat(strings) ==
    IF strings = <<>> THEN "" ELSE Head(strings) \o Concat(Tail(strings))

InitInterpolate ==
    /\ InitSideIdle
    /\ InitOrchIdle
    /\ InitHttpIdle
    /\ InitLbIdle
    /\ InitEvaluationIdle
    /\ InitShapingIdle
    /\ \E n \in 0..MaxPieces :
         \E pieces \in [1..n -> Pieces] :
            expansion = [pc |-> "call", pieces |-> pieces,
                         template |-> Concat(pieces), output |-> ""]

\* context.interpolate(template) is called and returns.
Expand ==
    /\ expansion.pc = "call"
    /\ expansion' =
          [expansion EXCEPT
              !.pc = "done",
              !.output = interpolate_str(Context(request, context_results),
                                         expansion.template)]
    /\ UNCHANGED <<orchVars, httpVars, lbVars, routerVars, configVars, sideVars,
                   evaluation, shaping>>

NextInterpolate == Expand

SpecInterpolate == InitInterpolate /\ [][NextInterpolate]_vars

\* What the pieces of a template are expected to expand to.
ExpectedPiece(piece) ==
    IF piece = "${request.method}" THEN request.method ELSE piece

\* C30: every ${EXPR} that is not a recognized expression is in the output
\* exactly as it was written, whitespace inside the braces included, and the
\* text outside the ${...} occurrences is returned as it is.
C30_UnrecognizedLeftAsWritten ==
    expansion.pc = "done"
    => expansion.output =
          Concat([i \in 1..Len(expansion.pieces) |->
                     ExpectedPiece(expansion.pieces[i])])

----------------------------------------------------------------------------
(* conditions.rs: evaluate_condition on condition trees                    *)

MaxConditions == 2

\* The conditions without sub-conditions, all about the name "id".
LeafConditions ==
    { [k |-> "Always"],
      [k |-> "FieldExists", field |-> "id"],
      [k |-> "FieldEquals", field |-> "id", value |-> "42"],
      [k |-> "FieldMatches", field |-> "id", pattern |-> "^4"],
      [k |-> "FieldMatches", field |-> "id", pattern |-> "("],
      [k |-> "HeaderExists", header |-> "id"],
      [k |-> "HeaderEquals", header |-> "id", value |-> "42"],
      [k |-> "QueryExists", param |-> "id"],
      [k |-> "QueryEquals", param |-> "id", value |-> "42"] }

ConditionLists == UNION { [1..n -> LeafConditions] : n \in 0..MaxConditions }

ConditionTrees ==
    LeafConditions
    \cup { [k |-> "Not", condition |-> c] : c \in LeafConditions }
    \cup { [k |-> "And", conditions |-> l] : l \in ConditionLists }
    \cup { [k |-> "Or", conditions |-> l] : l \in ConditionLists }

ParamMaps == { EmptyMap, "id" :> "42", "id" :> "7" }

ConditionRequests ==
    { [headers |-> h, path_params |-> p, query_params |-> q, body |-> None,
       method |-> "GET", path |-> "/r1"] :
        h \in {EmptyMap, "id" :> "42"}, p \in ParamMaps, q \in ParamMaps }

InitConditions ==
    /\ InitSideIdle
    /\ subrequests = <<>>
    /\ execution_mode = "Parallel"
    /\ http_clients = {"c1"}
    /\ request \in ConditionRequests
    /\ pc = "idle"
    /\ execution_order = <<>>
    /\ wave_no = 0
    /\ seq_idx = 0
    /\ context_results = EmptyMap
    /\ task = <<>>
    /\ all_results = <<>>
    /\ results = <<>>
    /\ response = None
    /\ routes = <<>>
    /\ served = 0
    /\ InitConfigPlain
    /\ InitHttpIdle
    /\ InitLbIdle
    /\ InitExpansionIdle
    /\ InitShapingIdle
    /\ \E condition \in ConditionTrees :
          evaluation = [pc |-> "call", condition |-> condition, result |-> None]

\* evaluate_condition(condition, context) is called and returns.
Evaluate ==
    /\ evaluation.pc = "call"
    /\ evaluation' =
          [evaluation EXCEPT
              !.pc = "done",
              !.result = Some(evaluate_condition(
                                  evaluation.condition,
                                  Context(request, context_results)))]
    /\ UNCHANGED <<orchVars, httpVars, lbVars, routerVars, configVars, sideVars,
                   expansion, shaping>>

NextConditions == Evaluate

SpecConditions == InitConditions /\ [][NextConditions]_vars

\* C28: evaluate_condition returns a boolean for every condition tree and
\* context and leaves the context as it was; And over no condition is true,
\* Or over no condition is false, FieldMatches with a pattern that does not
\* compile is false.
C28_ConditionsTotal ==
    [][(evaluation.pc = "call" /\ evaluation'.pc = "done")
       => LET condition == evaluation.condition
              result == evaluation'.result
          IN /\ result \in {Some(TRUE), Some(FALSE)}
             /\ request' = request
             /\ context_results' = context_results
             /\ (condition.k = "And" /\ condition.conditions = <<>>)
                => result = Some(TRUE)
             /\ (condition.k = "Or" /\ condition.conditions = <<>>)
                => result = Some(FALSE)
             /\ (condition.k = "FieldMatches" /\ condition.pattern = "(")
                => result = Some(FALSE)]_vars

\* FieldMatches with a pattern that does not compile was evaluated for a
\* request that has the field, and gave false.
C28_Witness ==
    /\ evaluation.pc = "done"
    /\ evaluation.condition.k = "FieldMatches"
    /\ evaluation.condition.pattern = "("
    /\ MapHas(request.path_params, "id")
    /\ evaluation.result = Some(FALSE)

\* The value a field operator looks at: the path variable when the request
\* has one of that name, else the query variable, else none.
FieldSeen(field) ==
    IF field \in DOMAIN request.path_params
    THEN Some(request.path_params[field])
    ELSE IF field \in DOMAIN request.query_params
    THEN Some(request.query_params[field])
    ELSE None

\* C29: FieldExists, FieldEquals and FieldMatches look at the path variable
\* of the field first and at the query variable only when there is no such
\* path variable; headers are never looked at.
C29_PathShadowsQuery ==
    evaluation.pc = "done"
    => LET condition == evaluation.condition
           result == evaluation.result[1]
       IN /\ condition.k = "FieldExists"
             => (result <=> FieldSeen(condition.field) # None)
          /\ condition.k = "FieldEquals"
             => (result <=> FieldSeen(condition.field) = Some(condition.value))
          /\ (condition.k = "FieldMatches" /\ condition.pattern = "^4")
             => (result <=> /\ FieldSeen(condition.field) # None
                            /\ SubSeq(FieldSeen(condition.field)[1], 1, 1) = "4")

\* A path variable that does not satisfy the comparison hid a query
\* parameter and a header of the same name that would.
C29_Witness ==
    /\ evaluation.pc = "done"
    /\ evaluation.condition.k \in {"FieldEquals", "FieldMatches"}
    /\ request.path_params = ("id" :> "7")
    /\ request.query_params = ("id" :> "42")
    /\ request.headers = ("id" :> "42")
    /\ evaluation.result = Some(FALSE)

----------------------------------------------------------------------------
(* transform.rs: apply_transformation on values and transforms             *)

\* The values given to apply_transformation: objects with a nested object,
\* an array of an object and a number, an envelope, and scalars.
ShapeData ==
    { JObj([id |-> JNum(7), status |-> JNum(200),
            body |-> JObj([id |-> JNum(8), type |-> JStr("x")])]),
      JArr(<<JObj([id |-> JNum(1), status |-> JNum(2)]), JNum(3)>>),
      JObj([subrequests |-> JArr(<<JObj([id |-> JNum(1), status |-> JNum(200)])>>),
            count |-> JNum(1)]),
      JNum(5), JStr("s"), JNull }

IdentityTransform ==
    [filter |-> None, field_mappings |-> EmptyMap, include_fields |-> <<>>,
     exclude_fields |-> <<>>, template |-> None]

Transforms ==
    { [filter |-> f, field_mappings |-> m, include_fields |-> i,
       exclude_fields |-> e, template |-> t] :
        f \in {None, Some("body"), Some("subrequests[0]"), Some("]x[")},
        m \in {EmptyMap, "id" :> "client_id"},
        i \in {<<>>, <<"client_id">>, <<"id", "body", "subrequests">>},
        e \in {<<>>, <<"id">>, <<"status", "client_id">>},
        t \in {None, Some("${response.client_id}"),
               Some("${response.id}-${request.method}")} }

InitTransform ==
    /\ InitSideIdle
    /\ InitOrchIdle
    /\ InitHttpIdle
    /\ InitLbIdle
    /\ InitExpansionIdle
    /\ InitEvaluationIdle
    /\ \E data \in ShapeData, transform \in Transforms :
          shaping = [pc |-> "call", transform |-> Some(transform),
                     data |-> data, result |-> JNull]

\* apply_transformation(value, transform, context) is called and returns,
\* or panics.
Shape ==
    /\ shaping.pc = "call"
    /\ LET result == apply_transformation(shaping.data, shaping.transform[1],
                                          Context(request, context_results))
       IN shaping' = [shaping EXCEPT
                         !.pc = IF result = Panicked THEN "panicked" ELSE "done",
                         !.result = result]
    /\ UNCHANGED <<orchVars, httpVars, lbVars, routerVars, configVars, sideVars,
                   expansion, evaluation>>

NextTransform == Shape

SpecTransform == InitTransform /\ [][NextTransform]_vars

\* C25: the transform with no filter, no field mapping, empty include and
\* exclude lists and no template returns the value it was given.
C25_IdentityTransform ==
    (shaping.pc = "done" /\ shaping.transform = Some(IdentityTransform))
    => shaping.result = shaping.data

\* The identity transform was applied to an object that holds an object.
C25_Witness ==
    /\ shaping.pc = "done"
    /\ shaping.transform = Some(IdentityTransform)
    /\ shaping.data.t = "object"
    /\ "body" \in DOMAIN shaping.data.m
    /\ shaping.result = shaping.data

\* C26: the steps are applied in the order filter, field_mappings,
\* include/exclude, template: the result is the template applied to the
\* include/exclude of the renaming of the filtered value, so the lists are
\* matched against the renamed keys and the template reads the value the
\* three earlier steps produced.
C26_FixedStepOrder ==
    shaping.pc = "done"
    => LET t == shaping.transform[1]
           filtered == IF t.filter # None
                       THEN apply_filter(shaping.data, t.filter[1])
                       ELSE shaping.data
           renamed == IF t.field_mappings # EmptyMap
                      THEN apply_field_mappings(filtered, t.field_mappings)
                      ELSE filtered
           kept == IF t.include_fields # <<>> \/ t.exclude_fields # <<>>
                   THEN filter_fields(renamed, t.include_fields, t.exclude_fields)
                   ELSE renamed
       IN /\ shaping.result =
                IF t.template # None
                THEN apply_template(t.template[1], kept,
                                    Context(request, context_results))
                ELSE kept
          /\ (/\ t.filter = None
              /\ t.template = None
              /\ t.include_fields # <<>>
              /\ shaping.data.t = "object")
             => DOMAIN shaping.result.m =
                   { NewKey(t.field_mappings, key) : key \in DOMAIN shaping.data.m }
                   \cap { t.include_fields[i] : i \in 1..Len(t.include_fields) }

\* A transform whose include list and template name the key that only the
\* renaming produces, applied to an object: the template found the value.
C26_Witness ==
    /\ shaping.pc = "done"
    /\ shaping.transform[1].filter = None
    /\ shaping.transform[1].field_mappings = ("id" :> "client_id")
    /\ shaping.transform[1].include_fields = <<"client_id">>
    /\ shaping.transform[1].template = Some("${response.client_id}")
    /\ shaping.data.t = "object"
    /\ "id" \in DOMAIN shaping.data.m
    /\ shaping.result = shaping.data.m["id"]

Survives(key, include, exclude) ==
    IF include # <<>>
    THEN \E i \in 1..Len(include) : include[i] = key
    ELSE ~ \E i \in 1..Len(exclude) : exclude[i] = key

\* Whether out is the value kept of a value: the same kind of value, with
\* exactly the surviving keys in every object, inside arrays too.
RECURSIVE KeptOf(_, _, _, _)
KeptOf(value, out, include, exclude) ==
    CASE value.t = "object" ->
            /\ out.t = "object"
            /\ DOMAIN out.m =
                  { key \in DOMAIN value.m : Survives(key, include, exclude) }
            /\ \A key \in DOMAIN out.m :
                  KeptOf(value.m[key], out.m[key], include, exclude)
      [] value.t = "array" ->
            /\ out.t = "array"
            /\ Len(out.a) = Len(value.a)
            /\ \A i \in 1..Len(value.a) :
                  KeptOf(value.a[i], out.a[i], include, exclude)
      [] OTHER -> out = value

OnlyFields(transform) ==
    /\ transform.filter = None
    /\ transform.field_mappings = EmptyMap
    /\ transform.template = None

\* C27: in the include/exclude step, with a non-empty include list a key
\* survives exactly when it is in include, in every object at every depth,
\* objects inside arrays included, whatever exclude holds; with an empty
\* include list a key survives exactly when it is not in exclude.
C27_IncludeWinsAtEveryDepth ==
    (shaping.pc = "done" /\ OnlyFields(shaping.transform[1]))
    => KeptOf(shaping.data, shaping.result,
              shaping.transform[1].include_fields,
              shaping.transform[1].exclude_fields)

\* Include and exclude both name "id": it survived at the top and in the
\* nested object, while "status" and the nested "type" were dropped.
C27_Witness ==
    /\ shaping.pc = "done"
    /\ OnlyFields(shaping.transform[1])
    /\ shaping.transform[1].include_fields = <<"id", "body", "subrequests">>
    /\ shaping.transform[1].exclude_fields = <<"id">>
    /\ shaping.data.t = "object"
    /\ "status" \in DOMAIN shaping.data.m
    /\ shaping.result =
          JObj([id |-> JNum(7), body |-> JObj([id |-> JNum(8)])])

----------------------------------------------------------------------------
(* Properties of the dependencies, the failures and the clients of a       *)
(* request (SpecGateway)                                                   *)

\* C22: in either execution mode a route whose depends_on names no
\* subrequest of the route, or has a cycle, is rejected by the validation of
\* the configuration or answered 500: none of its subrequests is dispatched.
C22_BadDependenciesNeverDispatched ==
    (validate(clients, subrequests) /\ (HasCycle \/ HasDangling))
    => /\ \A idx \in DOMAIN task : task[idx].st \in {"none"}
       /\ (pc = "done" /\ served # 0) => response[1].status = 500

\* The subrequests of the wave being joined that failed at their backend.
FailedInWave ==
    { idx \in DOMAIN task :
        /\ SeqContains(execution_order[wave_no], idx)
        /\ task[idx].st = "done"
        /\ ~ task[idx].res[1].ok
        /\ task[idx].res[1].err.kind = "SubrequestFailed" }

\* C23: in parallel mode, once a subrequest of the wave has failed, the
\* orchestrator can return at once, whatever the other subrequests of the
\* wave are doing, and what it returns is SubrequestFailed with the message
\* of a failure.
C23_FailureReturnsWithoutWaiting ==
    /\ (/\ pc = "join"
        /\ FailedInWave # {}
        /\ \A idx \in DOMAIN task : task[idx].st # "pending")
       => ENABLED WaveJoin
    /\ (pc = "done" /\ execution_mode = "Parallel" /\ response[1].status = 502)
       => \E idx \in FailedInWave :
             response[1].error = Some(task[idx].res[1].err)

\* C24: with a configuration that Config::validate accepts, every
\* subrequest finds its client at request time: no request fails with
\* ClientNotFound.
C24_ValidatedClientsResolve ==
    (validate(clients, subrequests) /\ pc = "done" /\ response[1].error # None)
    => response[1].error[1].kind # "ClientNotFound"

----------------------------------------------------------------------------
(* One request through a route that has a response_transform               *)

\* Templates that read the result of the subrequest named A.
ShapedTransforms ==
    { [IdentityTransform EXCEPT !.template = Some("${subrequest.A.status}")],
      [IdentityTransform EXCEPT
          !.template = Some("{\"status\": \"${subrequest.A.status}\", \"count\": ${response.count}}")] }

ShapedRoutes ==
    LET plain == [name |-> None, depends_on |-> <<>>, client_id |-> "c1",
                  condition |-> None, uri |-> <<Lit("/x")>>]
    IN UNION { [1..n -> {plain, [plain EXCEPT !.name = Some("A")]}] :
                 n \in 0..Min(MaxSubrequests, NumCallers) }

InitShapedGateway ==
    /\ clients = ("c1" :> "http") @@ ("c9" :> "redis")
    /\ response_transform \in { Some(t) : t \in ShapedTransforms }
    /\ routes = <<[method |-> "GET", path |-> "/r1"]>>
    /\ served = 0
    /\ subrequests \in ShapedRoutes
    /\ execution_mode \in {"Parallel", "Sequential"}
    /\ http_clients = HttpClientIds(clients)
    /\ validate(clients, subrequests)
    /\ request = [headers |-> EmptyMap, path_params |-> EmptyMap,
                  query_params |-> EmptyMap, body |-> Some(""),
                  method |-> "GET", path |-> "/r1"]
    /\ pc = "recv"
    /\ execution_order = <<>>
    /\ wave_no = 0
    /\ seq_idx = 0
    /\ context_results = EmptyMap
    /\ task = [i \in 1..Len(subrequests) |-> NoTask]
    /\ all_results = <<>>
    /\ results = <<>>
    /\ response = None
    /\ \E client \in GatewayClients : cfg = client.cfg /\ cb = client.cb
    /\ now = 0
    /\ overflow_checks = FALSE
    /\ InitCalls
    /\ InitLbIdle
    /\ InitPureIdle

SpecShapedGateway == InitShapedGateway /\ [][NextGateway]_vars

\* The named subrequests that completed, and their results under their
\* names (the last one of a name is the one that stays).
NamedDone(name) ==
    { i \in DOMAIN task : /\ subrequests[i].name = Some(name)
                          /\ task[i].st = "done"
                          /\ task[i].res[1].ok }

NamedResults ==
    [name \in { n \in {"A", "B"} : NamedDone(n) # {} } |->
        task[CHOOSE i \in NamedDone(name) : \A j \in NamedDone(name) : j <= i].res[1].v]

\* C21: in parallel mode as in sequential mode, the response is shaped
\* against a context that holds the results of the named subrequests that
\* completed, so ${subrequest.NAME...} in the response template resolves to
\* the same text in both modes.
C21_ShaperSeesResultsInBothModes ==
    (pc = "done" /\ response[1].status = 200 /\ response_transform # None)
    => response[1].body =
          apply_transformation(
              Envelope(ExecutedValues(1)).body,
              response_transform[1],
              Context(request, NamedResults))

----------------------------------------------------------------------------
(* health_aggregation.rs: HealthCheckManager                               *)

MaxTicks == 2

\* health.report is what the last operation returned (None for the
\* operations that return nothing) and health.op names that operation.
HealthStatuses == {"Healthy", "Unhealthy", "Degraded"}
HealthBackends == {"b1", "b2"}

\* The clock of last_check is counted in ticks of the checking interval.
register_backend(backends, backend_id, at) ==
    MapInsert(backends, backend_id,
              [backend_id |-> backend_id, status |-> "Healthy",
               last_check |-> at, response_time_ms |-> 0, error |-> None])

update_backend_health(backends, backend_id, status, response_time_ms, error, at) ==
    IF MapHas(backends, backend_id)
    THEN [backends EXCEPT
             ![backend_id] = [@ EXCEPT !.status = status,
                                       !.last_check = at,
                                       !.response_time_ms = response_time_ms,
                                       !.error = error]]
    ELSE backends

get_aggregated_health_all_healthy(backends) ==
    LET total_backends == Cardinality(DOMAIN backends)
        healthy_count ==
            Cardinality({ b \in DOMAIN backends : backends[b].status = "Healthy" })
        unhealthy_count ==
            Cardinality({ b \in DOMAIN backends : backends[b].status = "Unhealthy" })
        status == IF healthy_count = total_backends THEN "Healthy"
                  ELSE IF healthy_count = 0 THEN "Unhealthy"
                  ELSE "Degraded"
    IN [status |-> status, backends |-> backends,
        total_backends |-> total_backends, healthy_count |-> healthy_count,
        unhealthy_count |-> unhealthy_count]
get_aggregated_health(backends) ==
    LET total_backends == Cardinality(DOMAIN backends)
        healthy_count ==
            Cardinality({ b \in DOMAIN backends : backends[b].status = "Healthy" })
        unhealthy_count ==
            Cardinality({ b \in DOMAIN backends : backends[b].status = "Unhealthy" })
        status == IF unhealthy_count = 0 THEN "Healthy"
                  ELSE IF healthy_count = 0 THEN "Unhealthy"
                  ELSE "Degraded"
    IN [status |-> status, backends |-> backends,
        total_backends |-> total_backends, healthy_count |-> healthy_count,
        unhealthy_count |-> unhealthy_count]

\* What check_fn can return: Ok(response time) or Err(message).
CheckOutcomes == {Ok(7), Err("down")}

\* The update a finished check makes: the Ok arm and the Err arm of the
\* spawned task.
CheckUpdate(backends, backend_id, outcome, at) ==
    IF outcome.ok
    THEN update_backend_health(backends, backend_id, "Healthy", outcome.v, None, at)
    ELSE update_backend_health(backends, backend_id, "Unhealthy", 0,
                               Some(outcome.err), at)

RegisterBackend(b) ==
    /\ health' = [health EXCEPT
                     !.backends = register_backend(health.backends, b, health.ticks),
                     !.report = None,
                     !.op = Some([op |-> "register", backend_id |-> b])]
    /\ UNCHANGED <<orchVars, httpVars, lbVars, routerVars, configVars,
                   expansion, evaluation, shaping, traffic, dedup, reload>>

UpdateBackendHealth(b, status) ==
    /\ health' = [health EXCEPT
                     !.backends = update_backend_health(
                                      health.backends, b, status,
                                      IF status = "Unhealthy" THEN 0 ELSE 7,
                                      IF status = "Healthy" THEN None
                                      ELSE Some("reported"),
                                      health.ticks),
                     !.report = None,
                     !.op = Some([op |-> "update", backend_id |-> b])]
    /\ UNCHANGED <<orchVars, httpVars, lbVars, routerVars, configVars,
                   expansion, evaluation, shaping, traffic, dedup, reload>>

GetAggregatedHealth ==
    /\ health' = [health EXCEPT
                     !.report = Some(get_aggregated_health(health.backends)),
                     !.op = Some([op |-> "report", backend_id |-> ""])]
    /\ UNCHANGED <<orchVars, httpVars, lbVars, routerVars, configVars,
                   expansion, evaluation, shaping, traffic, dedup, reload>>

\* The backend ids in a fixed order, for the loop over backend_ids.
RECURSIVE IdsOf(_)
IdsOf(ids) ==
    IF ids = {} THEN <<>>
    ELSE LET b == CHOOSE x \in ids : TRUE
         IN <<b>> \o IdsOf(ids \ {b})

\* interval.tick() fires: one check is spawned for every backend registered
\* at that moment; the loop does not wait for them.
HealthTick ==
    /\ health.ticks < MaxTicks
    /\ LET tick == health.ticks + 1
           ids == IdsOf(DOMAIN health.backends)
       IN health' = [health EXCEPT
                        !.ticks = tick,
                        !.checks = @ \o [i \in 1..Len(ids) |->
                                            [backend_id |-> ids[i], tick |-> tick,
                                             st |-> "running", outcome |-> None]],
                        !.report = None,
                     !.op = Some([op |-> "tick", backend_id |-> ""])]
    /\ UNCHANGED <<orchVars, httpVars, lbVars, routerVars, configVars,
                   expansion, evaluation, shaping, traffic, dedup, reload>>

\* A spawned check returns from check_fn and stores its outcome.
CheckFinishes(i, outcome) ==
    /\ i \in DOMAIN health.checks
    /\ health.checks[i].st = "running"
    /\ health' = [health EXCEPT
                     !.backends = CheckUpdate(health.backends,
                                              health.checks[i].backend_id,
                                              outcome, health.ticks),
                     !.checks[i] = [@ EXCEPT !.st = "finished",
                                             !.outcome = Some(outcome)],
                     !.report = None,
                     !.op = Some([op |-> "check",
                                  backend_id |-> health.checks[i].backend_id])]
    /\ UNCHANGED <<orchVars, httpVars, lbVars, routerVars, configVars,
                   expansion, evaluation, shaping, traffic, dedup, reload>>

InitHealth ==
    /\ InitOrchIdle
    /\ InitHttpIdle
    /\ InitLbIdle
    /\ InitPureIdle

NextHealth ==
    \/ \E b \in HealthBackends : RegisterBackend(b)
    \/ \E b \in HealthBackends \cup {"b9"}, status \in HealthStatuses :
          UpdateBackendHealth(b, status)
    \/ GetAggregatedHealth
    \/ HealthTick
    \/ \E i \in 1..(MaxTicks * Cardinality(HealthBackends)),
          outcome \in CheckOutcomes : CheckFinishes(i, outcome)

SpecHealth == InitHealth /\ [][NextHealth]_vars

\* What a report says against the backends it was taken from.
ReportRight(h) ==
    h.report # None =>
      LET r == h.report[1]
          Has(status) == \E b \in DOMAIN r.backends : r.backends[b].status = status
      IN /\ (r.status = "Healthy") <=> ~ Has("Unhealthy")
         /\ (r.status = "Unhealthy") <=> (Has("Unhealthy") /\ ~ Has("Healthy"))
         /\ (r.status = "Degraded") <=> (Has("Unhealthy") /\ Has("Healthy"))
         /\ r.healthy_count + r.unhealthy_count <= r.total_backends
         /\ r.total_backends = Cardinality(DOMAIN r.backends)

\* C31: a report is Healthy exactly when no registered backend is Unhealthy
\* (also with no backend at all), Unhealthy exactly when one is Unhealthy and
\* none Healthy, Degraded otherwise; the two counts never exceed the total;
\* a report is taken from the backends as they are; an update for a backend
\* that is not registered changes nothing.
C31_AggregatedHealth ==
    [][ /\ ReportRight(health')
        /\ (health'.op # None /\ health'.op[1].op = "report")
           => health'.report[1].backends = health.backends
        /\ (/\ health'.op # None
            /\ health'.op[1].op = "update"
            /\ ~ MapHas(health.backends, health'.op[1].backend_id))
           => /\ health'.backends = health.backends
              /\ health'.report = None ]_vars

C31_Witness ==
    /\ health.report # None
    /\ health.report[1].status = "Healthy"
    /\ \E b \in DOMAIN health.report[1].backends :
          health.report[1].backends[b].status = "Degraded"

\* The stored fields a check's outcome leaves in the backend's entry.
WrittenBy(entry, outcome) ==
    IF outcome.ok
    THEN entry.status = "Healthy" /\ entry.response_time_ms = outcome.v
         /\ entry.error = None
    ELSE entry.status = "Unhealthy" /\ entry.response_time_ms = 0
         /\ entry.error = Some(outcome.err)

\* C38: a check that finishes after a check of the same backend started at
\* a later tick has stored its outcome does not overwrite that outcome.
C38_LastStartedCheckWins ==
    [][ \A i \in DOMAIN health.checks :
          ( /\ health.checks[i].st = "running"
            /\ health'.checks[i].st = "finished"
            /\ MapHas(health.backends, health.checks[i].backend_id)
            /\ \E j \in DOMAIN health.checks :
                  /\ health.checks[j].backend_id = health.checks[i].backend_id
                  /\ health.checks[j].tick > health.checks[i].tick
                  /\ health.checks[j].st = "finished"
                  /\ WrittenBy(health.backends[health.checks[i].backend_id],
                               health.checks[j].outcome[1]) )
          => WrittenBy(health'.backends[health.checks[i].backend_id],
                       health.checks[CHOOSE j \in DOMAIN health.checks :
                          /\ health.checks[j].backend_id = health.checks[i].backend_id
                          /\ health.checks[j].tick > health.checks[i].tick
                          /\ health.checks[j].st = "finished"].outcome[1]) ]_vars

----------------------------------------------------------------------------
(* routing/selector.rs and config/traffic_split.rs: TrafficSelector        *)

\* The bytes of the characters that methods and paths are written with.
ByteOf(c) ==
    CASE c = "G" -> 71 [] c = "E" -> 69 [] c = "T" -> 84 [] c = "P" -> 80
      [] c = "O" -> 79 [] c = "S" -> 83 [] c = "/" -> 47 [] c = "a" -> 97
      [] c = "i" -> 105 [] c = "t" -> 116 [] c = "e" -> 101 [] c = "m" -> 109
      [] c = "s" -> 115 [] c = "4" -> 52 [] c = "2" -> 50

\* simple_hash: fold(0u32, |acc, b| acc.wrapping_mul(31).wrapping_add(b)).
\* The u32 is kept as its two 16-bit halves.
RECURSIVE simple_hash_from(_, _, _)
simple_hash_from(s, i, acc) ==
    IF i > Len(s) THEN acc
    ELSE LET low == acc.lo * 31 + ByteOf(SubSeq(s, i, i))
         IN simple_hash_from(s, i + 1,
                [hi |-> ((acc.hi * 31) + (low \div 65536)) % 65536,
                 lo |-> low % 65536])

simple_hash(s) == simple_hash_from(s, 1, [hi |-> 0, lo |-> 0])

\* hash % 100, 65536 being 36 modulo 100.
Bucket(hash) == (((hash.hi % 100) * 36) + (hash.lo % 100)) % 100

\* str::split_once('='): None, or the text before and after the first '='.
split_once(s, c) ==
    LET at == FindFrom(s, c, 1)
    IN IF at = 0 THEN None
       ELSE Some([k |-> SubSeq(s, 1, at - 1), v |-> SubSeq(s, at + 1, Len(s))])

RECURSIVE FirstPair(_, _, _, _)
FirstPair(parts, i, name, trimmed) ==
    IF i > Len(parts) THEN None
    ELSE LET part == IF trimmed THEN trim(parts[i]) ELSE parts[i]
             kv == split_once(part, "=")
         IN IF kv # None /\ kv[1].k = name THEN Some(kv[1].v)
            ELSE FirstPair(parts, i + 1, name, trimmed)

parse_cookie(cookie_str, name) == FirstPair(split(cookie_str, ";"), 1, name, TRUE)
parse_query_param(query, name) == FirstPair(split(query, "&"), 1, name, FALSE)

RECURSIVE SumWeights(_)
SumWeights(variants) ==
    IF variants = <<>> THEN 0
    ELSE Head(variants).weight + SumWeights(Tail(variants))

\* TrafficSplitConfig::validate
traffic_validate(config) ==
    /\ SumWeights(config.variants) = 100
    /\ \A i, j \in DOMAIN config.variants :
          config.variants[i].name = config.variants[j].name => i = j

\* find_variant, and the find of the sticky cookie: the index of the first
\* variant of that name, 0 for none.
find_variant(config, name) ==
    IF \E i \in DOMAIN config.variants : config.variants[i].name = name
    THEN CHOOSE i \in DOMAIN config.variants :
            /\ config.variants[i].name = name
            /\ \A j \in 1..(i - 1) : config.variants[j].name # name
    ELSE 0

\* check_rule: the index of the variant the rule gives, 0 for None. A header
\* value is Ok(text) or, when it is not visible ASCII, Err.
check_rule(config, rule, req) ==
    CASE rule.type = "header" ->
            IF /\ MapHas(req.headers, rule.name)
               /\ req.headers[rule.name].ok
               /\ req.headers[rule.name].v = rule.value
            THEN find_variant(config, rule.variant) ELSE 0
      [] rule.type = "cookie" ->
            IF /\ MapHas(req.headers, "cookie")
               /\ req.headers["cookie"].ok
               /\ parse_cookie(req.headers["cookie"].v, rule.name) = Some(rule.value)
            THEN find_variant(config, rule.variant) ELSE 0
      [] rule.type = "query" ->
            IF /\ req.query # None
               /\ parse_query_param(req.query[1], rule.name) = Some(rule.value)
            THEN find_variant(config, rule.variant) ELSE 0
      [] rule.type = "percentage" -> 0

RECURSIVE WeightedFrom(_, _, _, _)
WeightedFrom(variants, i, cumulative, bucket) ==
    IF i > Len(variants) THEN 1
    ELSE IF bucket < cumulative + variants[i].weight THEN i
    ELSE WeightedFrom(variants, i + 1, cumulative + variants[i].weight, bucket)

select_weighted_variant(config, req) ==
    WeightedFrom(config.variants, 1, 0, Bucket(simple_hash(req.method \o req.path)))

RECURSIVE RulesFrom(_, _, _)
RulesFrom(config, i, req) ==
    IF i > Len(config.rules) THEN select_weighted_variant(config, req)
    ELSE IF check_rule(config, config.rules[i], req) # 0
    THEN check_rule(config, config.rules[i], req)
    ELSE RulesFrom(config, i + 1, req)

select_variant_rules_first(config, req, sticky_cookie) ==
    IF \E i \in DOMAIN config.rules : check_rule(config, config.rules[i], req) # 0
    THEN RulesFrom(config, 1, req)
    ELSE IF sticky_cookie # None /\ find_variant(config, sticky_cookie[1]) # 0
    THEN find_variant(config, sticky_cookie[1])
    ELSE RulesFrom(config, 1, req)
select_variant(config, req, sticky_cookie) ==
    IF sticky_cookie # None /\ find_variant(config, sticky_cookie[1]) # 0
    THEN find_variant(config, sticky_cookie[1])
    ELSE RulesFrom(config, 1, req)

Variant(name, weight) ==
    [name |-> name, client_id |-> "backend_" \o name, weight |-> weight,
     sticky |-> FALSE]

TrafficVariants ==
    { <<Variant("a", 50), Variant("b", 50)>>,
      <<Variant("a", 90), Variant("b", 10)>>,
      <<Variant("a", 100)>>,
      <<Variant("a", 50), Variant("b", 40)>>,
      <<Variant("a", 50), Variant("a", 50)>>,
      <<>> }

TrafficRules ==
    { <<>>,
      <<[type |-> "header", name |-> "x-variant", value |-> "beta", variant |-> "b"]>>,
      <<[type |-> "query", name |-> "v", value |-> "1", variant |-> "zz"],
        [type |-> "cookie", name |-> "exp", value |-> "on", variant |-> "b"]>>,
      <<[type |-> "percentage", variant |-> "b", percentage |-> 10],
        [type |-> "query", name |-> "v", value |-> "1", variant |-> "a"],
        [type |-> "header", name |-> "x-variant", value |-> "beta", variant |-> "b"]>> }

TrafficHeaders ==
    { EmptyMap,
      "x-variant" :> Ok("beta"),
      "x-variant" :> [ok |-> FALSE],
      "cookie" :> Ok("sid=1; exp=on"),
      "cookie" :> Ok("exp=off; exp=on"),
      ("cookie" :> Ok("exp=on")) @@ ("x-variant" :> Ok("beta")) }

TrafficRequests ==
    [method : {"GET", "POST"}, path : {"/a", "/items/42"},
     headers : TrafficHeaders, query : {None, Some("v=1"), Some("u=2&v=1")}]

InitTraffic ==
    /\ InitOrchIdle
    /\ InitHttpIdle
    /\ InitLbIdle
    /\ InitExpansionIdle
    /\ InitEvaluationIdle
    /\ InitShapingIdle
    /\ InitHealthIdle
    /\ InitDedupIdle
    /\ InitReloadIdle
    /\ \E variants \in TrafficVariants, rules \in TrafficRules,
          req \in TrafficRequests, sticky_cookie \in {None, Some("b"), Some("zz")} :
          traffic = [pc |-> "new",
                     config |-> [name |-> "ab_test", variants |-> variants,
                                 rules |-> rules],
                     request |-> req, sticky_cookie |-> sticky_cookie,
                     variant |-> 0]

\* TrafficSelector::new: the selector exists only if the configuration
\* validates.
NewSelector ==
    /\ traffic.pc = "new"
    /\ traffic' = [traffic EXCEPT
                      !.pc = IF traffic_validate(traffic.config)
                             THEN "built" ELSE "rejected"]
    /\ UNCHANGED <<orchVars, httpVars, lbVars, routerVars, configVars,
                   expansion, evaluation, shaping, health, dedup, reload>>

SelectVariant ==
    /\ traffic.pc = "built"
    /\ traffic' = [traffic EXCEPT
                      !.pc = "selected",
                      !.variant = select_variant(traffic.config, traffic.request,
                                                 traffic.sticky_cookie)]
    /\ UNCHANGED <<orchVars, httpVars, lbVars, routerVars, configVars,
                   expansion, evaluation, shaping, health, dedup, reload>>

NextTraffic == NewSelector \/ SelectVariant

SpecTraffic == InitTraffic /\ [][NextTraffic]_vars

\* Whether a rule matches the request: the header has the value, the first
\* cookie (or query parameter) of the name has the value.
RuleMatches(rule, req) ==
    CASE rule.type = "header" ->
            rule.name \in DOMAIN req.headers /\ req.headers[rule.name] = Ok(rule.value)
      [] rule.type = "cookie" ->
            /\ "cookie" \in DOMAIN req.headers
            /\ req.headers["cookie"].ok
            /\ parse_cookie(req.headers["cookie"].v, rule.name) = Some(rule.value)
      [] rule.type = "query" ->
            req.query # None /\ parse_query_param(req.query[1], rule.name) = Some(rule.value)
      [] OTHER -> FALSE

Configured(name) == \E i \in DOMAIN traffic.config.variants :
                        traffic.config.variants[i].name = name

DecidingRules ==
    { i \in DOMAIN traffic.config.rules :
        /\ RuleMatches(traffic.config.rules[i], traffic.request)
        /\ Configured(traffic.config.rules[i].variant) }

\* The weight bucket of a method and path: the variant whose range of
\* percentages holds the bucket.
BucketVariant(method, path) ==
    LET bucket == Bucket(simple_hash(method \o path))
        Before(i) == SumWeights(SubSeq(traffic.config.variants, 1, i - 1))
    IN { i \in DOMAIN traffic.config.variants :
           Before(i) <= bucket /\ bucket < Before(i) + traffic.config.variants[i].weight }

----------------------------------------------------------------------------
(* middleware/deduplication.rs: deduplication_middleware                   *)

MaxRequests == 2
MaxDedupTime == 2
\* config.ttl, in ticks of the model's clock.
DedupTtl == 2

\* headers().get("idempotency-key").and_then(|v| v.to_str().ok()): a header
\* value is Ok(text) or, when it is not visible ASCII, an Err.
idempotency_key_of(req) ==
    IF MapHas(req.headers, "idempotency-key") /\ req.headers["idempotency-key"].ok
    THEN Some(req.headers["idempotency-key"].v)
    ELSE None

is_idempotent(method) == method \in {"GET", "HEAD", "PUT", "DELETE"}

\* The early return of the middleware (and of extract_key): None when the
\* request is not deduplicated, the key otherwise.
extract_key(req) ==
    IF ~ is_idempotent(req.method) /\ idempotency_key_of(req) = None
    THEN None
    ELSE Some([method |-> req.method, path |-> req.path,
               idempotency_key |-> idempotency_key_of(req)])

\* cache.get: the entry of the key, unless its time to live has passed.
cache_get(cache, key, at) ==
    IF MapHas(cache, key) /\ at - cache[key].inserted < DedupTtl
    THEN Some(cache[key].result)
    ELSE None

cache_insert(cache, key, result, at) ==
    MapInsert(cache, key, [result |-> result, inserted |-> at])

\* status.is_success()
is_success(status) == 200 <= status /\ status < 300

DedupRequests ==
    [method : {"GET", "POST"}, path : {"/a"},
     headers : { EmptyMap,
                 "idempotency-key" :> Ok("k1"),
                 "idempotency-key" :> [ok |-> FALSE] }]

\* What the downstream handler answers.
HandlerResponses ==
    { [status |-> 200, headers |-> <<<<"content-type", "text/plain">>>>, body |-> "ok"],
      [status |-> 404, headers |-> <<>>, body |-> "missing"] }

FromCache(cached) ==
    [status |-> cached.status,
     headers |-> <<<<"X-Deduplicated", "true">>>> \o cached.headers,
     body |-> cached.body]

\* A request enters the middleware: it is passed through, answered from the
\* cache, or handed to the downstream handler after a miss.
Arrive(req) ==
    /\ Len(dedup.reqs) < MaxRequests
    /\ LET key == extract_key(req)
           cached == IF key = None THEN None
                     ELSE cache_get(dedup.cache, key[1], dedup.now)
           entry == [request |-> req, key |-> key, at |-> dedup.now,
                     ran |-> cached = None, stored |-> FALSE,
                     pc |-> IF cached = None THEN "handler" ELSE "done",
                     handled |-> None,
                     response |-> IF cached = None THEN None
                                  ELSE Some(FromCache(cached[1]))]
       IN dedup' = [dedup EXCEPT !.reqs = Append(@, entry)]
    /\ UNCHANGED <<orchVars, httpVars, lbVars, routerVars, configVars,
                   expansion, evaluation, shaping, health, traffic, reload>>

\* next.run(request) returns: a request that is not deduplicated and a
\* response that is not a success are returned as they are.
HandlerReturns(r, resp) ==
    /\ r \in DOMAIN dedup.reqs
    /\ dedup.reqs[r].pc = "handler"
    /\ dedup' = [dedup EXCEPT
                    !.reqs[r] =
                       IF dedup.reqs[r].key = None \/ ~ is_success(resp.status)
                       THEN [@ EXCEPT !.pc = "done", !.handled = Some(resp),
                                      !.response = Some(resp)]
                       ELSE [@ EXCEPT !.pc = "reading", !.handled = Some(resp)]]
    /\ UNCHANGED <<orchVars, httpVars, lbVars, routerVars, configVars,
                   expansion, evaluation, shaping, health, traffic, reload>>

\* to_bytes(body) returns: on Err the answer is a 500 and nothing is stored;
\* on Ok the result is inserted in the cache and the response rebuilt.
BodyRead(r, ok) ==
    /\ r \in DOMAIN dedup.reqs
    /\ dedup.reqs[r].pc = "reading"
    /\ IF ok
       THEN dedup' = [dedup EXCEPT
                         !.cache = cache_insert(@, dedup.reqs[r].key[1],
                                                dedup.reqs[r].handled[1], dedup.now),
                         !.reqs[r] = [@ EXCEPT !.pc = "done", !.stored = TRUE,
                                               !.response = dedup.reqs[r].handled]]
       ELSE dedup' = [dedup EXCEPT
                         !.reqs[r] = [@ EXCEPT
                            !.pc = "done",
                            !.response = Some([status |-> 500, headers |-> <<>>,
                                               body |-> "Failed to process response"])]]
    /\ UNCHANGED <<orchVars, httpVars, lbVars, routerVars, configVars,
                   expansion, evaluation, shaping, health, traffic, reload>>

DedupTick ==
    /\ dedup.now < MaxDedupTime
    /\ dedup' = [dedup EXCEPT !.now = @ + 1]
    /\ UNCHANGED <<orchVars, httpVars, lbVars, routerVars, configVars,
                   expansion, evaluation, shaping, health, traffic, reload>>

InitDedup ==
    /\ InitOrchIdle
    /\ InitHttpIdle
    /\ InitLbIdle
    /\ InitPureIdle

NextDedup ==
    \/ \E req \in DedupRequests : Arrive(req)
    \/ \E r \in 1..MaxRequests, resp \in HandlerResponses : HandlerReturns(r, resp)
    \/ \E r \in 1..MaxRequests, ok \in BOOLEAN : BodyRead(r, ok)
    \/ DedupTick

SpecDedup == InitDedup /\ [][NextDedup]_vars

\* The condition of the claim: an idempotent method, or an Idempotency-Key
\* header on the request.
SubjectToDedup(req) ==
    \/ req.method \in {"GET", "HEAD", "PUT", "DELETE"}
    \/ "idempotency-key" \in DOMAIN req.headers

\* C33: the middleware deduplicates a request exactly when its method is
\* GET, HEAD, PUT or DELETE or it carries an Idempotency-Key header; any
\* other request reaches the downstream handler and its response is not
\* stored.
C33_DeduplicatedIffIdempotentOrKeyed ==
    \A r \in DOMAIN dedup.reqs :
        /\ (dedup.reqs[r].key # None) <=> SubjectToDedup(dedup.reqs[r].request)
        /\ ~ SubjectToDedup(dedup.reqs[r].request)
           => /\ dedup.reqs[r].ran
              /\ ~ dedup.reqs[r].stored
              /\ dedup.reqs[r].pc = "done"
                 => dedup.reqs[r].response = dedup.reqs[r].handled

\* C39: of two requests with the same key that arrive within the time to
\* live of one another, if the handler ran for the earlier one and answered
\* 2xx it does not run for the later one, which is answered with the stored
\* response marked X-Deduplicated.
C39_HandlerRunsOncePerKey ==
    \A r1, r2 \in DOMAIN dedup.reqs :
        ( /\ r1 < r2
          /\ dedup.reqs[r1].key # None
          /\ dedup.reqs[r1].key = dedup.reqs[r2].key
          /\ dedup.reqs[r2].at - dedup.reqs[r1].at < DedupTtl
          /\ dedup.reqs[r1].ran
          /\ dedup.reqs[r1].handled # None
          /\ is_success(dedup.reqs[r1].handled[1].status) )
        => /\ ~ dedup.reqs[r2].ran
           /\ dedup.reqs[r2].response = Some(FromCache(dedup.reqs[r1].handled[1]))

----------------------------------------------------------------------------
(* config/hot_reload.rs: ConfigHotReload::start_watching                   *)

MaxEvents == 3

\* What the watched file can hold: a configuration that validates, one that
\* parses but names a client that is not configured, and text that is not a
\* configuration at all. The file can also be missing.
FileConfig(config_clients, client_id) ==
    [clients |-> config_clients,
     subrequests |-> <<[client_id |-> client_id]>>]

FileContents ==
    { [k |-> "yaml", config |-> FileConfig("c1" :> "http", "c1")],
      [k |-> "yaml", config |-> FileConfig(("c1" :> "http") @@ ("c2" :> "http"), "c2")],
      [k |-> "yaml", config |-> FileConfig("c1" :> "http", "c2")],
      [k |-> "garbage"] }

\* Config::from_yaml_file: read_to_string, then serde_yaml::from_str.
from_yaml_file(file) ==
    IF file.k = "yaml" THEN Ok(file.config)
    ELSE Err(IF file.k = "missing" THEN "No such file" ELSE "invalid yaml")

should_reload(event) == event \in {"Modify", "Create", "Remove"}

\* The file is written, created or removed, or only read: notify queues the
\* event for the watching thread. A watch error is queued the same way.
FileEvent(kind, content) ==
    /\ reload.seen < MaxEvents
    /\ kind = "Remove" => content = [k |-> "missing"]
    /\ kind = "Create" => reload.file.k = "missing"
    /\ kind \in {"Modify", "Access"} => reload.file.k # "missing"
    /\ kind \in {"Access", "Error"} => content = reload.file
    /\ kind \in {"Modify", "Create"} => content \in FileContents
    /\ reload' = [reload EXCEPT !.file = content,
                                !.events = Append(@, kind),
                                !.seen = @ + 1]
    /\ UNCHANGED <<orchVars, httpVars, lbVars, routerVars, configVars,
                   expansion, evaluation, shaping, health, traffic, dedup>>

\* One turn of the loop on watcher_rx.recv(): the file is loaded as it is
\* after the delay, and what loads is sent.
HandleEvent ==
    /\ reload.events # <<>>
    /\ LET event == Head(reload.events)
           loaded == from_yaml_file(reload.file)
       IN IF should_reload(event) /\ loaded.ok
          THEN reload' = [reload EXCEPT !.events = Tail(@),
                                        !.sent = Append(@, loaded.v),
                                        !.inbox = Append(@, loaded.v)]
          ELSE reload' = [reload EXCEPT !.events = Tail(@)]
    /\ UNCHANGED <<orchVars, httpVars, lbVars, routerVars, configVars,
                   expansion, evaluation, shaping, health, traffic, dedup>>

\* The subscriber's rx.recv() returns the next configuration sent.
Receive ==
    /\ reload.inbox # <<>>
    /\ reload' = [reload EXCEPT !.inbox = Tail(@),
                                !.current = Some(Head(reload.inbox))]
    /\ UNCHANGED <<orchVars, httpVars, lbVars, routerVars, configVars,
                   expansion, evaluation, shaping, health, traffic, dedup>>

\* The gateway started from a file that validates; one subscriber holds that
\* configuration.
InitReload ==
    /\ InitOrchIdle
    /\ InitHttpIdle
    /\ InitLbIdle
    /\ InitExpansionIdle
    /\ InitEvaluationIdle
    /\ InitShapingIdle
    /\ InitHealthIdle
    /\ InitTrafficIdle
    /\ InitDedupIdle
    /\ \E file \in FileContents :
          /\ file.k = "yaml"
          /\ validate(file.config.clients, file.config.subrequests)
          /\ reload = [file |-> file, events |-> <<>>, seen |-> 0,
                       sent |-> <<>>, inbox |-> <<>>,
                       current |-> Some(file.config)]

NextReload ==
    \/ \E kind \in {"Modify", "Create", "Remove", "Access", "Error"},
          content \in FileContents \cup {[k |-> "missing"]} :
          FileEvent(kind, content)
    \/ HandleEvent
    \/ Receive

SpecReload == InitReload /\ [][NextReload]_vars

\* C40: handling a change of the file publishes a configuration exactly
\* when the file loads and passes Config::validate, and what is published is
\* that configuration; otherwise nothing is published and the subscriber
\* keeps what it had. Subscribers only ever hold validated configurations.
C40_PublishesOnlyValidated ==
    [][ /\ ( /\ Len(reload'.events) < Len(reload.events)
             /\ should_reload(Head(reload.events)) )
           => IF /\ reload.file.k = "yaml"
                 /\ validate(reload.file.config.clients,
                             reload.file.config.subrequests)
              THEN reload'.sent = Append(reload.sent, reload.file.config)
              ELSE reload'.sent = reload.sent /\ reload'.current = reload.current
        /\ reload'.current # None
           => validate(reload'.current[1].clients,
                       reload'.current[1].subrequests) ]_vars

----------------------------------------------------------------------------
(* Properties of the plan, of the breaker's record and of the two          *)
(* execution modes                                                         *)

\* The places of the plan that hold the index idx.
PlacesOf(idx) ==
    { <<w, k>> \in (1..Len(execution_order)) \X (1..N) :
        k <= Len(execution_order[w]) /\ execution_order[w][k] = idx }

\* C35: build_execution_order returns for every subrequest list, and a plan
\* it returns has no empty wave and holds every index of the list, named or
\* not, exactly once.
C35_PlanIsPartition ==
    /\ (execution_mode = "Parallel" /\ pc = "start") => ENABLED StartParallel
    /\ Planned =>
         /\ execution_order = build_execution_order(subrequests).v
         /\ \A w \in 1..Len(execution_order) :
               /\ execution_order[w] # <<>>
               /\ \A k \in 1..Len(execution_order[w]) :
                     execution_order[w][k] \in 1..N
         /\ \A idx \in 1..N : Cardinality(PlacesOf(idx)) = 1

C35_Witness ==
    /\ Planned
    /\ N = 2
    /\ Len(execution_order) = 2
    /\ \E idx \in 1..N : subrequests[idx].name = None /\ WaveOf(idx) = 2


\* Routes whose uris can be templated on the status of subrequest A, a
\* reference that resolves once A's result is in the context.
ModeConfigs ==
    { [name |-> n, depends_on |-> d, client_id |-> "c1", condition |-> None,
       uri |-> u] :
        n \in {None, Some("A"), Some("B")},
        d \in {<<>>, <<"A">>},
        u \in { <<Lit("/x")>>,
                <<Lit("/u/"), SubrequestExpr(<<"A", "status">>)>> } }

ModeRoutes == UNION { [1..n -> ModeConfigs] : n \in 0..MaxSubrequests }

InitModes ==
    /\ subrequests \in ModeRoutes
    /\ execution_mode \in {"Parallel", "Sequential"}
    /\ http_clients = {"c1"}
    /\ request \in Requests
    /\ pc = "start"
    /\ execution_order = <<>>
    /\ wave_no = 0
    /\ seq_idx = 0
    /\ context_results = EmptyMap
    /\ task = [i \in 1..Len(subrequests) |-> NoTask]
    /\ all_results = <<>>
    /\ results = <<>>
    /\ response = None
    /\ InitHttpIdle
    /\ InitLbIdle
    /\ InitRouted
    /\ InitConfigPlain
    /\ InitPureIdle

SpecModes == InitModes /\ [][Next]_vars

\* A backend that answers deterministically: the same answer to the same
\* uri.
Backend(uri) ==
    IF uri = "/u/" THEN Ok([status |-> 404, body |-> "nf"])
    ELSE Ok([status |-> 200, body |-> "{\"id\":\"42\"}"])

AnsweredByBackend ==
    \A i \in 1..N :
        (task[i].st = "done" /\ task[i].uri # "")
        => task[i].res = Some(HttpResult(subrequests[i], Backend(task[i].uri)))

\* The routes of the claim: depends_on names only subrequests defined
\* earlier, every ${subrequest.NAME...} of a uri names a subrequest of
\* depends_on, and every client is an HTTP client.
DependenciesDeclared ==
    \A i \in 1..N :
        /\ \A d \in 1..Len(subrequests[i].depends_on) :
              \E j \in 1..(i - 1) : Named(j, subrequests[i].depends_on[d])
        /\ \A p \in 1..Len(subrequests[i].uri) :
              subrequests[i].uri[p].k = "subrequest"
              => SeqContains(subrequests[i].depends_on,
                             subrequests[i].uri[p].parts[1])
        /\ subrequests[i].client_id \in http_clients

\* What is sent and returned when the subrequests run one after another in
\* definition order against that backend.
RECURSIVE InDefinitionOrder(_, _, _, _)
InDefinitionOrder(i, ctxres, sent, values) ==
    IF i > N THEN [sent |-> sent, values |-> values]
    ELSE IF ~ ConditionMet(subrequests[i], Context(request, ctxres))
    THEN InDefinitionOrder(i + 1, ctxres, sent, values)
    ELSE LET uri == interpolate(Context(request, ctxres), subrequests[i].uri)
             result == HttpResult(subrequests[i], Backend(uri)).v
         IN InDefinitionOrder(
                i + 1,
                IF subrequests[i].name # None
                THEN add_subrequest_result(ctxres, subrequests[i].name[1], result)
                ELSE ctxres,
                [sent EXCEPT ![i] = uri],
                Append(values, result))

\* C34: on a route whose dependencies are declared, against a deterministic
\* backend, either mode sends the uris and returns the subrequests array of
\* the run in definition order: the two modes agree.
C34_ModesAgree ==
    (DependenciesDeclared /\ pc = "done" /\ AnsweredByBackend)
    => LET ref == InDefinitionOrder(1, EmptyMap, [i \in 1..N |-> ""], <<>>)
       IN /\ [i \in 1..N |-> task[i].uri] = ref.sent
          /\ response = Some(Envelope(ref.values))

----------------------------------------------------------------------------
(* clients/http.rs: execute_request called with a method that is not a     *)
(* valid HTTP method                                                       *)

\* The breaker is asked (lines 61-67), then Method::from_bytes fails and the
\* `?` of line 70 returns its error: nothing is sent.
CallBadMethod(c) ==
    /\ ~Active(c)
    /\ call[c].pc # "panicked"
    /\ LET asked == IF cfg.circuit_breaker = None
                    THEN [permitted |-> TRUE, cb |-> cb]
                    ELSE is_call_permitted(cb, cfg.circuit_breaker[1], now)
       IN /\ cb' = asked.cb
          /\ call' = [call EXCEPT ![c] =
                        [pc |-> IF asked.permitted THEN "bad_method" ELSE "rejected",
                         attempt |-> 0, sends |-> 0, sleeps |-> 0]]
          /\ url' = [url EXCEPT ![c] =
                       IF asked.permitted THEN cfg.base_url \o RequestUri(c)
                       ELSE ""]
          /\ ret' = [ret EXCEPT ![c] =
                       IF asked.permitted THEN Some(Err("invalid HTTP method"))
                       ELSE Some(Err("Circuit breaker is open"))]
          /\ backoff' = [backoff EXCEPT ![c] = 0]
          /\ hist' = [hist EXCEPT !.status[c] = 0]
    /\ UNCHANGED <<cfg, now, overflow_checks>>
    /\ UNCHANGED <<orchVars, lbVars, routerVars, configVars, sideVars, pureVars>>

InitMethods == InitClient /\ cfg \in SingleUrlConfigs

NextMethods ==
    \/ NextClient
    \/ \E c \in Callers : CallBadMethod(c)

SpecMethods == InitMethods /\ [][NextMethods]_vars

\* What the breaker becomes when one outcome is recorded with it.
OneOutcomeRecorded(breaker) ==
    { cb_call(breaker, cfg.circuit_breaker[1], now, ok) : ok \in BOOLEAN }

\* C36: the step in which an admitted call returns records one outcome, a
\* success or a failure, with the breaker, whichever way it returns.
C36_AdmittedCallRecordsOutcome ==
    [][ HasBreaker =>
        \A c \in Callers :
           /\ ( /\ call[c].pc = "inflight"
                /\ call'[c].pc \in {"ok", "failed", "body_err"} )
              => cb' \in OneOutcomeRecorded(cb)
           /\ ( /\ call[c].pc # "bad_method"
                /\ call'[c].pc = "bad_method" )
              => cb' \in OneOutcomeRecorded(
                            is_call_permitted(cb, cfg.circuit_breaker[1], now).cb)
      ]_vars

----------------------------------------------------------------------------
(* transform.rs: apply_template on templates that insert request data      *)

\* The values a request carries in its header x and its query parameter q.
RenderValues ==
    {"v", "", "}", "${response.id}", "${response.secret}", "${request.method}"}

RenderTemplates ==
    {"plain", "${request.query.q}", "id=${response.id} q=${request.query.q}",
     "${request.headers[x]}-${response.id}",
     "{\"q\":\"${request.query.q}\"}"}

\* The values the template is applied to.
RenderData ==
    { JObj([id |-> JNum(7), secret |-> JStr("s3")]), JObj([id |-> JStr("a")]),
      JNull }

RenderRequest(header, query) ==
    [headers |-> ("x" :> header), path_params |-> EmptyMap,
     query_params |-> ("q" :> query), body |-> None, method |-> "GET",
     path |-> "/r1"]

InitRender ==
    /\ InitSideIdle
    /\ subrequests = <<>>
    /\ execution_mode = "Parallel"
    /\ http_clients = {"c1"}
    /\ \E header \in RenderValues, query \in RenderValues :
          request = RenderRequest(header, query)
    /\ pc = "idle"
    /\ execution_order = <<>>
    /\ wave_no = 0
    /\ seq_idx = 0
    /\ context_results = EmptyMap
    /\ task = <<>>
    /\ all_results = <<>>
    /\ results = <<>>
    /\ response = None
    /\ routes = <<>>
    /\ served = 0
    /\ InitConfigPlain
    /\ InitHttpIdle
    /\ InitLbIdle
    /\ InitExpansionIdle
    /\ InitEvaluationIdle
    /\ \E data \in RenderData, template \in RenderTemplates :
          shaping = [pc |-> "call",
                     transform |-> Some([IdentityTransform EXCEPT
                                            !.template = Some(template)]),
                     data |-> data, result |-> JNull]

NextRender == Shape

SpecRender == InitRender /\ [][NextRender]_vars

\* The last step of apply_template (line 136) on a rendered text.
ParsedOrText(text) ==
    LET parsed == from_str(text)
    IN IF parsed.ok THEN parsed.v ELSE JStr(text)

\* The text of a template rendered for a request whose header x and query
\* parameter q are two marks that are not expressions, with the marks then
\* replaced by the values the request has.
RenderedAround(template, data, req) ==
    LET marked == Context(RenderRequest("@1", "@2"), EmptyMap)
        text == interpolate_response_data(interpolate_str(marked, template),
                                          data)
    IN Replace(Replace(text, "@1", req.headers["x"]), "@2",
               req.query_params["q"])

\* C37: a rendering differs from the rendering for another request only in
\* the request values it inserts; these are copied as they are, never
\* evaluated as expressions.
C37_RequestTextCopiedVerbatim ==
    shaping.pc = "done"
    => shaping.result =
          ParsedOrText(RenderedAround(shaping.transform[1].template[1],
                                      shaping.data, request))

====
